---- MODULE Spec2Model ----
(***************************************************************************)
(* Hyperparameter-optimisation executors of ludwig/hyperopt/execution.py:  *)
(* parameter substitution, the GPU slot allocator, and the sample / train  *)
(* / score / feedback loop of SerialExecutor, ParallelExecutor and         *)
(* FiberExecutor.                                                          *)
(***************************************************************************)
EXTENDS Integers, Sequences, FiniteSets, TLC

(***************************************************************************)
(* Python values.  A string is a sequence of tokens; the token "." is the  *)
(* delimiter character, every other token stands for a run of other       *)
(* characters.  A value is a string scalar or a dict; a dict keeps its     *)
(* items in insertion order, as Python's dict does.                        *)
(***************************************************************************)
DOT == "."

Word(w) == <<w>>

Dotted(a, b) == <<a, DOT, b>>

Dotted3(a, b, c) == <<a, DOT, b, DOT, c>>

Scalar(s) == [isdict |-> FALSE, val |-> s, items |-> <<>>]

Item(k, v) == [k |-> k, v |-> v]

Dict(items) == [isdict |-> TRUE, val |-> <<>>, items |-> items]

EmptyDict == Dict(<<>>)

Sc(w) == Scalar(Word(w))

DictHas(d, k) == \E i \in DOMAIN d.items : d.items[i].k = k

DictIndex(d, k) == CHOOSE i \in DOMAIN d.items : d.items[i].k = k

DictGet(d, k) == d.items[DictIndex(d, k)].v

\* d[k] = v: an existing key keeps its position, a new key is appended
DictSet(d, k, v) ==
    IF DictHas(d, k)
    THEN [d EXCEPT !.items[DictIndex(d, k)].v = v]
    ELSE [d EXCEPT !.items = Append(@, Item(k, v))]

RECURSIVE GetAt(_, _)
GetAt(d, path) ==
    IF path = <<>> THEN d ELSE GetAt(DictGet(d, Head(path)), Tail(path))

RECURSIVE SetAt(_, _, _, _)
SetAt(d, path, k, v) ==
    IF path = <<>>
    THEN DictSet(d, k, v)
    ELSE DictSet(d, Head(path),
                 SetAt(DictGet(d, Head(path)), Tail(path), k, v))

\* Python's == on values: dicts compare by key set and values, not by order
RECURSIVE PyEq(_, _)
PyEq(a, b) ==
    IF a.isdict /\ b.isdict
    THEN /\ Len(a.items) = Len(b.items)
         /\ \A i \in DOMAIN a.items :
                /\ DictHas(b, a.items[i].k)
                /\ PyEq(a.items[i].v, DictGet(b, a.items[i].k))
    ELSE a = b

IsPrefix(p, q) == Len(p) <= Len(q) /\ SubSeq(q, 1, Len(p)) = p

\* str.split("."): "a.b" -> ["a", "b"], "a." -> ["a", ""], "" -> [""]
RECURSIVE split(_)
split(name) ==
    IF \A i \in DOMAIN name : name[i] # DOT
    THEN <<name>>
    ELSE LET i == CHOOSE n \in DOMAIN name :
                    name[n] = DOT /\ \A m \in 1..(n - 1) : name[m] # DOT
         IN <<SubSeq(name, 1, i - 1)>> \o split(SubSeq(name, i + 1, Len(name)))

(***************************************************************************)
(* get_parameters_dict.  The nested mapping is built in place; a dict      *)
(* value of the sample that was stored as a leaf is the very object that a *)
(* later, longer path walks into, so a write below it also shows in the    *)
(* sample.  alias records which paths of the nested mapping are such       *)
(* objects: [path, j] says the dict at path is the value of sample item j. *)
(***************************************************************************)
\* curr_dict[k] = v, seen through every reference to the object written
WriteAll(st, k, v) ==
    [st EXCEPT
        !.root = SetAt(st.root, st.curr, k, v),
        !.params = [n \in DOMAIN st.params |->
            IF \E a \in st.alias : a.j = n /\ IsPrefix(a.path, st.curr)
            THEN LET a == CHOOSE a \in st.alias :
                              a.j = n /\ IsPrefix(a.path, st.curr)
                 IN Item(st.params[n].k,
                         SetAt(st.params[n].v,
                               SubSeq(st.curr, Len(a.path) + 1, Len(st.curr)),
                               k, v))
            ELSE st.params[n]]]

\* a walk that makes a new dict at every step, also where one is there
RECURSIVE walk_fresh(_, _, _, _, _)
walk_fresh(st, j, name_list, value, i) ==
    IF i > Len(name_list) \/ st.raised
    THEN st
    ELSE LET curr_dict == GetAt(st.root, st.curr)
             name_elem == name_list[i]
             here == Append(st.curr, name_elem)
         IN IF ~curr_dict.isdict
            THEN [st EXCEPT !.raised = TRUE]
            ELSE IF i = Len(name_list)
            THEN [WriteAll(st, name_elem, value) EXCEPT
                     !.alias = {a \in st.alias : ~IsPrefix(here, a.path)}
                               \cup (IF value.isdict
                                     THEN {[path |-> here, j |-> j]}
                                     ELSE {})]
            ELSE walk_fresh([WriteAll(st, name_elem, EmptyDict) EXCEPT
                                !.curr = here,
                                !.alias = {a \in st.alias : ~IsPrefix(here, a.path)}],
                            j, name_list, value, i + 1)

\* the body of `for i, name_elem in enumerate(name_list)` from position i on
RECURSIVE walk(_, _, _, _, _)
walk(st, j, name_list, value, i) ==
    IF i > Len(name_list) \/ st.raised
    THEN st
    ELSE LET curr_dict == GetAt(st.root, st.curr)
             name_elem == name_list[i]
             here == Append(st.curr, name_elem)
         IN IF ~curr_dict.isdict
            THEN [st EXCEPT !.raised = TRUE]
            ELSE IF i = Len(name_list)
            THEN [WriteAll(st, name_elem, value) EXCEPT
                     !.alias = {a \in st.alias : ~IsPrefix(here, a.path)}
                               \cup (IF value.isdict
                                     THEN {[path |-> here, j |-> j]}
                                     ELSE {})]
            ELSE walk([(IF DictHas(curr_dict, name_elem)
                        THEN st
                        ELSE WriteAll(st, name_elem, EmptyDict))
                          EXCEPT !.curr = here],
                      j, name_list, value, i + 1)

\* the body of `for name, value in parameters.items()` from item j on
RECURSIVE gpd_items(_, _)
gpd_items(st, j) ==
    IF j > Len(st.params) \/ st.raised
    THEN st
    ELSE gpd_items(
            walk([st EXCEPT !.curr = <<>>], j,
                 split(st.params[j].k), st.params[j].v, 1),
            j + 1)

\* `return parameters_dict`, with the sample as the loop left it
gpd_return(st) ==
    [dict |-> st.root, parameters |-> Dict(st.params), raised |-> st.raised]

\* [dict: the nested mapping, parameters: the sample afterwards, raised]
get_parameters_dict(parameters) ==
    gpd_return(gpd_items([root |-> EmptyDict, params |-> parameters.items,
                          alias |-> {}, curr |-> <<>>, raised |-> FALSE], 1))

(***************************************************************************)
(* set_values: [dict: model_dict afterwards, raised].  A write that raises *)
(* leaves the earlier writes in place.                                     *)
(***************************************************************************)
\* the mapping put in place of model_dict[key] instead of merged into it
set_sub_values_replace(r, key, value, n) ==
    IF r.raised
    THEN r
    ELSE IF ~r.dict.isdict
    THEN [r EXCEPT !.raised = TRUE]
    ELSE [r EXCEPT !.dict = DictSet(r.dict, key, value)]

\* `for sub_key, sub_value in value.items(): model_dict[key][sub_key] = ...`
RECURSIVE set_sub_values(_, _, _, _)
set_sub_values(r, key, value, n) ==
    IF n > Len(value.items) \/ r.raised
    THEN r
    ELSE IF ~r.dict.isdict \/ ~DictHas(r.dict, key)
    THEN [r EXCEPT !.raised = TRUE]
    ELSE IF ~DictGet(r.dict, key).isdict
    THEN [r EXCEPT !.raised = TRUE]
    ELSE set_sub_values(
            [r EXCEPT !.dict = SetAt(r.dict, <<key>>,
                                     value.items[n].k, value.items[n].v)],
            key, value, n + 1)

\* `for key, value in params.items()` from item n on
RECURSIVE set_items(_, _, _)
set_items(r, params, n) ==
    IF n > Len(params.items) \/ r.raised
    THEN r
    ELSE LET key == params.items[n].k
             value == params.items[n].v
         IN set_items(
                IF value.isdict
                THEN set_sub_values(r, key, value, 1)
                ELSE IF ~r.dict.isdict
                THEN [r EXCEPT !.raised = TRUE]
                ELSE [r EXCEPT !.dict = DictSet(r.dict, key, value)],
                params, n + 1)

\* a set_values that does not test `name in parameters_dict` and takes the
\* first entry of the nested mapping whatever its name
set_values_first_name(model_dict, name, parameters_dict) ==
    IF parameters_dict.items = <<>>
    THEN [dict |-> model_dict, raised |-> FALSE]
    ELSE LET params == parameters_dict.items[1].v
         IN IF ~params.isdict
            THEN [dict |-> model_dict, raised |-> TRUE]
            ELSE set_items([dict |-> model_dict, raised |-> FALSE], params, 1)

set_values(model_dict, name, parameters_dict) ==
    IF ~DictHas(parameters_dict, name)
    THEN [dict |-> model_dict, raised |-> FALSE]
    ELSE LET params == DictGet(parameters_dict, name)
         IN IF ~params.isdict
            THEN [dict |-> model_dict, raised |-> TRUE]
            ELSE set_items([dict |-> model_dict, raised |-> FALSE], params, 1)

(***************************************************************************)
(* substitute_parameters.  A model definition is a record of its five      *)
(* parts; the function writes into the object it is given and returns it.  *)
(***************************************************************************)
NAME == Word("name")

\* `for feature in model_definition[field]: set_values(feature, feature[NAME], ..)`
RECURSIVE set_features(_, _, _, _)
set_features(r, field, parameters_dict, n) ==
    IF r.raised \/ n > Len(r.model_definition[field])
    THEN r
    ELSE LET feature == r.model_definition[field][n]
         IN IF ~feature.isdict \/ ~DictHas(feature, NAME)
            THEN [r EXCEPT !.raised = TRUE]
            ELSE IF DictGet(feature, NAME).isdict
            THEN [r EXCEPT !.raised = TRUE]
            ELSE LET s == set_values(feature, DictGet(feature, NAME).val,
                                     parameters_dict)
                 IN set_features(
                        [r EXCEPT !.model_definition[field][n] = s.dict,
                                  !.raised = s.raised],
                        field, parameters_dict, n + 1)

\* set_values(model_definition[field], field, parameters_dict)
set_section(r, field, parameters_dict) ==
    IF r.raised
    THEN r
    ELSE LET s == set_values(r.model_definition[field], Word(field),
                             parameters_dict)
         IN [r EXCEPT !.model_definition[field] = s.dict, !.raised = s.raised]

\* lines 621-628 on the value of the object, g being what
\* get_parameters_dict returned
set_all(config, g) ==
    set_section(
        set_section(
            set_section(
                set_features(
                    set_features([model_definition |-> config, raised |-> g.raised],
                                 "input_features", g.dict, 1),
                    "output_features", g.dict, 1),
                "combiner", g.dict),
            "training", g.dict),
        "preprocessing", g.dict)

substituted(r, g) ==
    [model_definition |-> r.model_definition, parameters |-> g.parameters,
     raised |-> r.raised]

steps_after(config, g) == substituted(set_all(config, g), g)

\* the statements of substitute_parameters on the value of the object
substitute_steps(config, parameters) ==
    steps_after(config, get_parameters_dict(parameters))

\* a substitute_parameters that copies what it is given and returns the copy
substitute_parameters_copying(h, ref, parameters) ==
    LET s == substitute_steps(h[ref], parameters)
        new == CHOOSE n \in 1..(Cardinality(DOMAIN h) + 1) : n \notin DOMAIN h
    IN [heap |-> [n \in DOMAIN h \cup {new} |->
                     IF n = new THEN s.model_definition ELSE h[n]],
        ret |-> new, parameters |-> s.parameters, raised |-> s.raised]

\* the object ref holds the outcome s of the statements, and is returned
written(h, ref, s) ==
    [heap |-> [h EXCEPT ![ref] = s.model_definition],
     ret |-> ref, parameters |-> s.parameters, raised |-> s.raised]

\* h: the objects, ref: the object passed as model_definition.
\* [heap, ret: the object returned, parameters, raised]
substitute_parameters(h, ref, parameters) ==
    written(h, ref, substitute_steps(h[ref], parameters))

\* no copy: the object itself
deepcopy_alias(h, ref) == [heap |-> h, ref |-> ref]

\* copy.deepcopy(model_definition): a new object with an equal value
deepcopy(h, ref) ==
    LET new == CHOOSE n \in 1..(Cardinality(DOMAIN h) + 1) : n \notin DOMAIN h
    IN [heap |-> [n \in DOMAIN h \cup {new} |-> IF n = new THEN h[ref] ELSE h[n]],
        ref |-> new]

\* the objects of h that refs still name
Keep(h, refs) == [n \in DOMAIN h \cap refs |-> h[n]]

(***************************************************************************)
(* Inputs: model definitions and hyperparameter samples.                   *)
(***************************************************************************)
Feature(name, items) == Dict(<<Item(NAME, Sc(name))>> \o items)

Config1 ==
    [input_features |-> <<Feature("f", <<Item(Word("cell"), Sc("c0")),
                                         Item(Word("pre"),
                                              Dict(<<Item(Word("p"), Sc("p0")),
                                                     Item(Word("q"), Sc("q0"))>>))>>)>>,
     output_features |-> <<Feature("y", <<Item(Word("loss"),
                                              Dict(<<Item(Word("w"), Sc("w0"))>>))>>)>>,
     combiner |-> Dict(<<Item(Word("type"), Sc("t0"))>>),
     training |-> Dict(<<Item(Word("lr"), Sc("l0"))>>),
     preprocessing |-> EmptyDict]

Config2 ==
    [input_features |-> <<Feature("f", <<Item(Word("pre"), Sc("none"))>>),
                          Feature("g", <<>>)>>,
     output_features |-> <<Feature("y", <<>>)>>,
     combiner |-> EmptyDict,
     training |-> Dict(<<Item(Word("lr"), Sc("l0")),
                         Item(Word("opt"), Dict(<<Item(Word("b"), Sc("b0"))>>))>>),
     preprocessing |-> Dict(<<Item(Word("split"), Sc("s0"))>>)]

Configs == {Config1, Config2}

(***************************************************************************)
(* HyperoptExecutor helpers.                                               *)
(***************************************************************************)
\* what train_and_eval_on_split can do: raise, or return statistics that
\* hold the metric (ok, with its score) or lack it (nometric)
Scores == {1, 2}

Raise == [kind |-> "raise", score |-> 0]

NoMetric == [kind |-> "nometric", score |-> 0]

Stats(s) == [kind |-> "ok", score |-> s]

TrainOutcomes == {Raise, NoMetric} \cup {Stats(s) : s \in Scores}

\* eval_stats[self.output_feature][self.metric]
get_metric_score(eval_stats) ==
    [raised |-> eval_stats.kind # "ok", score |-> eval_stats.score]

\* a sort that puts r before the elements it ties with
RECURSIVE insert_sorted_before_ties(_, _, _)
insert_sorted_before_ties(sorted, r, maximize) ==
    IF sorted = <<>>
    THEN <<r>>
    ELSE LET last == sorted[Len(sorted)]
             ahead == IF maximize
                      THEN r.metric_score >= last.metric_score
                      ELSE r.metric_score <= last.metric_score
         IN IF ahead
            THEN Append(insert_sorted_before_ties(
                            SubSeq(sorted, 1, Len(sorted) - 1), r, maximize), last)
            ELSE Append(sorted, r)

\* sorted(): r comes before the first element it is strictly ahead of, and
\* after every element it ties with
RECURSIVE insert_sorted(_, _, _)
insert_sorted(sorted, r, maximize) ==
    IF sorted = <<>>
    THEN <<r>>
    ELSE LET last == sorted[Len(sorted)]
             ahead == IF maximize
                      THEN r.metric_score > last.metric_score
                      ELSE r.metric_score < last.metric_score
         IN IF ahead
            THEN Append(insert_sorted(SubSeq(sorted, 1, Len(sorted) - 1),
                                      r, maximize), last)
            ELSE Append(sorted, r)

RECURSIVE sort_upto(_, _, _)
sort_upto(results, n, maximize) ==
    IF n = 0
    THEN <<>>
    ELSE insert_sorted(sort_upto(results, n - 1, maximize), results[n], maximize)

sort_hyperopt_results(hyperopt_results, goal) ==
    sort_upto(hyperopt_results, Len(hyperopt_results), goal = "maximize")

(***************************************************************************)
(* The GPU allocator of ParallelExecutor.execute.  Memory sizes are exact  *)
(* rationals num/den with den > 0 (the code computes them in floating      *)
(* point); an absent limit is none.                                        *)
(***************************************************************************)
EpsilonInv == 100

epsilon_memory == 100

TF_REQUIRED_MEMORY_PER_WORKER == 100

Rat(n, d) == [none |-> FALSE, num |-> n, den |-> d]

NoLimit == [none |-> TRUE, num |-> 0, den |-> 1]

Whole(n) == Rat(n, 1)

RLt(a, b) == a.num * b.den < b.num * a.den

REq(a, b) == a.num * b.den = b.num * a.den

RSub(a, b) == Rat(a.num * b.den - b.num * a.den, a.den * b.den)

Abs(n) == IF n < 0 THEN -n ELSE n

\* int(a / b) for b # 0: the quotient rounded toward zero
IntDiv(a, b) ==
    LET n == a.num * b.den
        d == b.num * a.den
        q == Abs(n) \div Abs(d)
    IN IF (n < 0) = (d < 0) THEN q ELSE -q

\* (num_gpus / num_workers - epsilon) * available_gpu_memory
required_gpu_memory(num_gpus, num_workers, available_gpu_memory) ==
    Rat((EpsilonInv * num_gpus - num_workers) * available_gpu_memory,
        EpsilonInv * num_workers)

\* new_gpu_memory_limit without lines 305-312: a limit above the available
\* memory is not brought down
new_gpu_memory_limit_unclamped(num_gpus, num_workers, available_gpu_memory, gpu_memory_limit) ==
    LET available == Whole(available_gpu_memory)
        required == required_gpu_memory(num_gpus, num_workers, available_gpu_memory)
    IN IF gpu_memory_limit.none
       THEN RSub(required, Whole(TF_REQUIRED_MEMORY_PER_WORKER * num_workers))
       ELSE IF RLt(required, gpu_memory_limit)
       THEN IF RLt(Rat(available_gpu_memory, 2), required)
            THEN IF ~REq(available, gpu_memory_limit)
                 THEN Whole(available_gpu_memory - epsilon_memory)
                 ELSE gpu_memory_limit
            ELSE required
       ELSE gpu_memory_limit

\* new_gpu_memory_limit without the test of line 315: a limit above required
\* is always lowered to required
new_gpu_memory_limit_always_required(num_gpus, num_workers, available_gpu_memory, gpu_memory_limit) ==
    LET available == Whole(available_gpu_memory)
        required == required_gpu_memory(num_gpus, num_workers, available_gpu_memory)
        clamped == IF RLt(available, gpu_memory_limit)
                   THEN Whole(available_gpu_memory - epsilon_memory)
                   ELSE gpu_memory_limit
    IN IF gpu_memory_limit.none
       THEN RSub(required, Whole(TF_REQUIRED_MEMORY_PER_WORKER * num_workers))
       ELSE IF RLt(required, clamped) THEN required ELSE clamped

\* new_gpu_memory_limit raising a limit that is not above required to
\* required at lines 335-344
new_gpu_memory_limit_raised(num_gpus, num_workers, available_gpu_memory, gpu_memory_limit) ==
    LET available == Whole(available_gpu_memory)
        required == required_gpu_memory(num_gpus, num_workers, available_gpu_memory)
        clamped == IF RLt(available, gpu_memory_limit)
                   THEN Whole(available_gpu_memory - epsilon_memory)
                   ELSE gpu_memory_limit
    IN IF gpu_memory_limit.none
       THEN RSub(required, Whole(TF_REQUIRED_MEMORY_PER_WORKER * num_workers))
       ELSE IF RLt(required, clamped)
       THEN IF RLt(Rat(available_gpu_memory, 2), required)
            THEN IF ~REq(available, clamped)
                 THEN Whole(available_gpu_memory - epsilon_memory)
                 ELSE clamped
            ELSE required
       ELSE required

\* new_gpu_memory_limit of one GPU in the case num_gpus < num_workers
new_gpu_memory_limit(num_gpus, num_workers, available_gpu_memory, gpu_memory_limit) ==
    LET available == Whole(available_gpu_memory)
        required == required_gpu_memory(num_gpus, num_workers, available_gpu_memory)
        clamped == IF RLt(available, gpu_memory_limit)
                   THEN Whole(available_gpu_memory - epsilon_memory)
                   ELSE gpu_memory_limit
    IN IF gpu_memory_limit.none
       THEN RSub(required, Whole(TF_REQUIRED_MEMORY_PER_WORKER * num_workers))
       ELSE IF RLt(required, clamped)
       THEN IF RLt(Rat(available_gpu_memory, 2), required)
            THEN IF ~REq(available, clamped)
                 THEN Whole(available_gpu_memory - epsilon_memory)
                 ELSE clamped
            ELSE required
       ELSE clamped

\* gpu_id_meta with <= for < at line 282: as many GPUs as workers share too
gpu_id_meta_shares_when_equal(gpu_ids, num_workers, available_gpu_memory_list, gpu_memory_limit, gpu_id) ==
    IF Len(gpu_ids) <= num_workers
    THEN LET available_gpu_memory == available_gpu_memory_list[gpu_id + 1]
             limit == new_gpu_memory_limit(Len(gpu_ids), num_workers,
                                           available_gpu_memory, gpu_memory_limit)
         IN IF limit.num = 0
            THEN [gpu_memory_limit |-> limit, process_per_gpu |-> 0, raised |-> TRUE]
            ELSE [gpu_memory_limit |-> limit,
                  process_per_gpu |-> IntDiv(Whole(available_gpu_memory), limit),
                  raised |-> FALSE]
    ELSE [gpu_memory_limit |-> gpu_memory_limit, process_per_gpu |-> 1,
          raised |-> FALSE]

\* gpu_ids_meta[gpu_id]: [gpu_memory_limit, process_per_gpu, raised]
gpu_id_meta(gpu_ids, num_workers, available_gpu_memory_list, gpu_memory_limit, gpu_id) ==
    IF Len(gpu_ids) < num_workers
    THEN LET available_gpu_memory == available_gpu_memory_list[gpu_id + 1]
             limit == new_gpu_memory_limit(Len(gpu_ids), num_workers,
                                           available_gpu_memory, gpu_memory_limit)
         IN IF limit.num = 0
            THEN [gpu_memory_limit |-> limit, process_per_gpu |-> 0, raised |-> TRUE]
            ELSE [gpu_memory_limit |-> limit,
                  process_per_gpu |-> IntDiv(Whole(available_gpu_memory), limit),
                  raised |-> FALSE]
    ELSE [gpu_memory_limit |-> gpu_memory_limit, process_per_gpu |-> 1,
          raised |-> FALSE]

\* slots_from putting one token for each GPU, whatever its process_per_gpu
RECURSIVE slots_from_one_each(_, _, _)
slots_from_one_each(gpu_ids, meta, g) ==
    IF g > Len(gpu_ids)
    THEN <<>>
    ELSE <<[gpu_id |-> gpu_ids[g], gpu_memory_limit |-> meta[g].gpu_memory_limit]>>
         \o slots_from_one_each(gpu_ids, meta, g + 1)

\* lines 360-366: the tokens put for gpu_ids[g..]; range(n) is empty for n <= 0
RECURSIVE slots_from(_, _, _)
slots_from(gpu_ids, meta, g) ==
    IF g > Len(gpu_ids)
    THEN <<>>
    ELSE [k \in 1..meta[g].process_per_gpu |->
             [gpu_id |-> gpu_ids[g],
              gpu_memory_limit |-> meta[g].gpu_memory_limit]]
         \o slots_from(gpu_ids, meta, g + 1)

\* lines 279-366: [raised, queue: the tokens in the order they are put]
allocate(gpu_ids, num_workers, available_gpu_memory_list, gpu_memory_limit) ==
    LET meta == [g \in DOMAIN gpu_ids |->
                    gpu_id_meta(gpu_ids, num_workers, available_gpu_memory_list,
                                gpu_memory_limit, gpu_ids[g])]
    IN IF \E g \in DOMAIN gpu_ids : meta[g].raised
       THEN [raised |-> TRUE, queue |-> <<>>]
       ELSE [raised |-> FALSE, queue |-> slots_from(gpu_ids, meta, 1)]

(***************************************************************************)
(* The executors.  One run of execute of one executor.                     *)
(***************************************************************************)
MaxBatches == 2

MaxTrials == 3

MaxWorkers == 3

Goals == {"maximize", "minimize"}

\* The samples the sampler hands out in a run of an executor.  The k-th sample
\* of the run is its own value, a learning rate or a feature's preprocessing
\* in turn, or it is a sample whose substitution raises.
SampleLr(k) == Dict(<<Item(Dotted("training", "lr"), Sc(ToString(k)))>>)

SamplePre(k) ==
    Dict(<<Item(Dotted("f", "pre"), Dict(<<Item(Word("p"), Sc(ToString(k)))>>))>>)

SampleBad == Dict(<<Item(Word("training"), Sc("l1"))>>)

SampleAt(k, bad) ==
    IF bad THEN SampleBad ELSE IF k % 2 = 1 THEN SampleLr(k) ELSE SamplePre(k)

\* the batches sample_batch can return after `given` samples, `left` at most
Batches(given, left) ==
    UNION {{[n \in 1..len |-> SampleAt(given + n, bad[n])] :
               bad \in [1..len -> BOOLEAN]} : len \in 0..left}

\* gpus as passed or detected: absent, or the list of ids of "0", "0,1", ...
NoGpus == [none |-> TRUE, ids |-> <<>>]

Gpus(ids) == [none |-> FALSE, ids |-> ids]

GpuSetup(g, d, l) == [gpus |-> g, detected |-> d, gpu_memory_limit |-> l]

\* the gpus and gpu_memory_limit arguments and what detection finds
GpuSetups ==
    {GpuSetup(NoGpus, NoGpus, NoLimit),
     GpuSetup(NoGpus, Gpus(<<0>>), NoLimit),
     GpuSetup(Gpus(<<1>>), NoGpus, NoLimit),
     GpuSetup(Gpus(<<0, 1>>), NoGpus, NoLimit),
     GpuSetup(Gpus(<<0, 1>>), NoGpus, Whole(1200)),
     GpuSetup(Gpus(<<2>>), NoGpus, Whole(1200))}

\* get_available_gpu_memory()
AvailableMemory == <<1000, 400, 100>>

model_definition == 1

VARIABLES
    args,               \* what the run was called with, and the environment
    heap,               \* the model definition objects alive
    pc,                 \* where the coordinator is in execute
    raising,            \* an exception is on its way to the caller
    sampler,            \* the sampler's state
    sampled_parameters, \* the batch in hand
    i,                  \* index of the loop over the batch
    tasks,              \* the trials of the batch in hand
    trials,
    metric_scores,
    hyperopt_results,
    gpus,               \* gpus after detection
    queue,              \* self.queue
    made,               \* the slot tokens the allocator put
    pool,               \* the worker pool: created, closed, joined
    calls,              \* the calls made to the sampler, in order
    updates,            \* what each update_batch call was given
    call                \* a direct call of one function: its arguments, its result

vars == <<call, args, heap, pc, raising, sampler, sampled_parameters, i, tasks, trials,
          metric_scores, hyperopt_results, gpus, queue, made, pool, calls, updates>>

NoCall == [fn |-> "none"]

NoPool == [created |-> FALSE, closed |-> FALSE, joined |-> FALSE]

NewPool == [created |-> TRUE, closed |-> FALSE, joined |-> FALSE]

Init ==
    /\ args \in
         {[executor |-> "serial", num_workers |-> 1, gpus |-> NoGpus,
           detected |-> NoGpus, gpu_memory_limit |-> NoLimit]}
         \cup {[executor |-> "fiber", num_workers |-> w, gpus |-> NoGpus,
                detected |-> NoGpus, gpu_memory_limit |-> NoLimit] :
               w \in 1..MaxWorkers}
         \cup {[executor |-> "parallel", num_workers |-> w, gpus |-> g.gpus,
                detected |-> g.detected, gpu_memory_limit |-> g.gpu_memory_limit] :
               w \in 1..MaxWorkers, g \in GpuSetups}
    /\ heap = [n \in {model_definition} |-> Config1]
    /\ pc = IF args.executor = "parallel" THEN "setup" ELSE "loop"
    /\ raising = FALSE
    /\ sampler = [finished |-> FALSE, batches |-> 0, given |-> 0, goal |-> "unread"]
    /\ sampled_parameters = <<>>
    /\ i = 1
    /\ tasks = <<>>
    /\ trials = 0
    /\ metric_scores = <<>>
    /\ hyperopt_results = <<>>
    /\ gpus = NoGpus
    /\ queue = <<>>
    /\ made = <<>>
    /\ pool = IF args.executor = "fiber" THEN NewPool ELSE NoPool
    /\ calls = <<>>
    /\ updates = <<>>
    /\ call = NoCall

\* no finally: the exception goes straight to the caller
PropagateNoFinally ==
    /\ raising' = TRUE
    /\ pc' = "raised"

\* the exception is swallowed and the loop goes on
PropagateContinue ==
    /\ raising' = FALSE
    /\ pc' = "loop"

\* an exception leaves the loop: ParallelExecutor runs its finally first
Propagate ==
    /\ raising' = TRUE
    /\ pc' = IF args.executor = "parallel" /\ pool.created THEN "close" ELSE "raised"

TrialResult(parameters, metric_score, trial_id) ==
    [parameters |-> parameters, metric_score |-> metric_score, stats |-> trial_id]

\* lines 357-369: the queue holds the tokens; the pool is created
Allocated(g, a) ==
    /\ gpus' = g
    /\ queue' = a.queue
    /\ made' = a.queue
    /\ pool' = IF a.raised THEN pool ELSE NewPool
    /\ raising' = a.raised
    /\ pc' = IF a.raised THEN "raised" ELSE "loop"

\* no detection: the gpus given only
gpus_used_given == args.gpus

\* lines 257-277: the gpus given, or else the gpus detected
gpus_used == IF args.gpus.none THEN args.detected ELSE args.gpus

\* lines 255-369: gpu detection, the allocator, the queue, the pool
Setup ==
    /\ pc = "setup"
    /\ Allocated(gpus_used,
                 IF gpus_used.none
                 THEN [raised |-> FALSE, queue |-> <<>>]
                 ELSE allocate(gpus_used.ids, args.num_workers, AvailableMemory,
                               args.gpu_memory_limit))
    /\ UNCHANGED <<call, args, heap, sampler, sampled_parameters, i, tasks, trials,
                   metric_scores, hyperopt_results, calls, updates>>

\* a loop that goes on sampling although finished() returned true
FinishedIgnored ==
    /\ pc = "loop"
    /\ \E r \in BOOLEAN :
          /\ sampler.finished \/ sampler.batches >= MaxBatches => r
          /\ sampler' = [sampler EXCEPT !.finished = r]
          /\ calls' = Append(calls, IF r THEN "finished_true" ELSE "finished_false")
          /\ pc' = IF sampler.batches < MaxBatches THEN "sample"
                   ELSE IF args.executor = "parallel" THEN "close" ELSE "sort"
    /\ UNCHANGED <<call, args, heap, raising, sampled_parameters, i, tasks, trials,
                   metric_scores, hyperopt_results, gpus, queue, made, pool, updates>>

\* `while not self.hyperopt_sampler.finished()`
Finished ==
    /\ pc = "loop"
    /\ \E r \in BOOLEAN :
          /\ sampler.finished \/ sampler.batches >= MaxBatches => r
          /\ sampler' = [sampler EXCEPT !.finished = r]
          /\ calls' = Append(calls, IF r THEN "finished_true" ELSE "finished_false")
          /\ pc' = IF ~r THEN "sample"
                   ELSE IF args.executor = "parallel" THEN "close" ELSE "sort"
    /\ UNCHANGED <<call, args, heap, raising, sampled_parameters, i, tasks, trials,
                   metric_scores, hyperopt_results, gpus, queue, made, pool, updates>>

\* `sampled_parameters = self.hyperopt_sampler.sample_batch()`
SampleBatch ==
    /\ pc = "sample"
    /\ calls' = Append(calls, "sample_batch")
    /\ \/ /\ Propagate
          /\ UNCHANGED <<heap, sampler, sampled_parameters, i, tasks, metric_scores>>
       \/ \E batch \in Batches(sampler.given, MaxTrials - sampler.given) :
             /\ sampled_parameters' = batch
             /\ sampler' = [sampler EXCEPT !.batches = @ + 1,
                                           !.given = @ + Len(batch)]
             /\ heap' = Keep(heap, {model_definition})
             /\ tasks' = <<>>
             /\ metric_scores' = <<>>
             /\ i' = 1
             /\ raising' = FALSE
             /\ pc' = IF args.executor = "serial" /\ batch = <<>>
                      THEN "update" ELSE "prepare"
    /\ UNCHANGED <<call, args, trials, hyperopt_results, gpus, queue, made, pool, updates>>

Task(state, ref, parameters, trial_id) ==
    [state |-> state, model_definition |-> ref, parameters |-> parameters,
     trial_id |-> trial_id, slot |-> <<>>, outcome |-> Raise]

Min(a, b) == IF a < b THEN a ELSE b

\* scores paired with the samples in the opposite order
zip_reversed(a, b) ==
    [n \in 1..Min(Len(a), Len(b)) |-> <<a[n], b[Min(Len(a), Len(b)) + 1 - n]>>]

\* zip(sampled_parameters, metric_scores)
zip(a, b) == [n \in 1..Min(Len(a), Len(b)) |-> <<a[n], b[n]>>]

\* (result["parameters"], result["metric_score"]) for result in batch_results
result_pairs(batch_results) ==
    [n \in DOMAIN batch_results |->
        <<batch_results[n].parameters, batch_results[n].metric_score>>]

\* results in the opposite order of the samples
batch_results_reversed(ts) ==
    [n \in DOMAIN ts |->
        TrialResult(ts[Len(ts) + 1 - n].parameters, ts[Len(ts) + 1 - n].outcome.score,
                    ts[Len(ts) + 1 - n].trial_id)]

\* results that carry the score of the next trial of the batch
batch_results_rotated(ts) ==
    [n \in DOMAIN ts |->
        TrialResult(ts[n].parameters, ts[(n % Len(ts)) + 1].outcome.score,
                    ts[n].trial_id)]

\* what pool.map returns once every trial has returned
batch_results_of(ts) ==
    [n \in DOMAIN ts |->
        TrialResult(ts[n].parameters, ts[n].outcome.score, ts[n].trial_id)]

Started(t) == t.state \in {"waiting", "running"}

Ended(t) == t.state \in {"done", "failed"}

InFlight(ts) == Cardinality({n \in DOMAIN ts : Started(ts[n])})

\* `substitute_parameters(copy.deepcopy(model_definition), parameters)`
modified_model_definition(h, parameters) ==
    LET c == deepcopy(h, model_definition)
    IN substitute_parameters(c.heap, c.ref, parameters)

\* SerialExecutor, lines 113-117: the next sample's model definition
\* the samples of a batch numbered from the last one
SerialStartedBackwards(s) ==
    /\ heap' = s.heap
    /\ sampled_parameters' = [sampled_parameters EXCEPT ![i] = s.parameters]
    /\ IF s.raised
       THEN Propagate /\ UNCHANGED tasks
       ELSE /\ tasks' = Append(tasks, Task("running", s.ret, s.parameters,
                                           trials + Len(sampled_parameters) - i))
            /\ pc' = "run"
            /\ UNCHANGED raising

\* lines 115-117 once the model definition of the sample is made
SerialStarted(s) ==
    /\ heap' = s.heap
    /\ sampled_parameters' = [sampled_parameters EXCEPT ![i] = s.parameters]
    /\ IF s.raised
       THEN Propagate /\ UNCHANGED tasks
       ELSE /\ tasks' = Append(tasks, Task("running", s.ret, s.parameters,
                                           trials + i - 1))
            /\ pc' = "run"
            /\ UNCHANGED raising

SerialStartTrial ==
    /\ pc = "prepare"
    /\ args.executor = "serial"
    /\ SerialStarted(modified_model_definition(Keep(heap, {model_definition}),
                                               sampled_parameters[i]))
    /\ UNCHANGED <<call, args, sampler, i, trials, metric_scores, hyperopt_results,
                   gpus, queue, made, pool, calls, updates>>

\* SerialExecutor, lines 118-158: train, evaluate, score, append
SerialFinishTrial ==
    /\ pc = "run"
    /\ \E o \in TrainOutcomes :
          LET m == get_metric_score(o)
          IN IF o.kind = "raise" \/ m.raised
             THEN /\ Propagate
                  /\ tasks' = [tasks EXCEPT ![i].state = "failed"]
                  /\ UNCHANGED <<metric_scores, hyperopt_results, i>>
             ELSE /\ tasks' = [tasks EXCEPT ![i].state = "done", ![i].outcome = o]
                  /\ metric_scores' = Append(metric_scores, m.score)
                  /\ hyperopt_results' =
                        Append(hyperopt_results,
                               TrialResult(sampled_parameters[i], m.score,
                                           tasks[i].trial_id))
                  /\ i' = i + 1
                  /\ pc' = IF i = Len(sampled_parameters) THEN "update" ELSE "prepare"
                  /\ UNCHANGED raising
    /\ UNCHANGED <<call, args, heap, sampler, sampled_parameters, trials, gpus, queue,
                   made, pool, calls, updates>>

\* Built numbering the trials of every batch from 0
Built_from_zero(s) ==
    /\ heap' = s.heap
    /\ sampled_parameters' = [sampled_parameters EXCEPT ![i] = s.parameters]
    /\ IF s.raised
       THEN Propagate /\ UNCHANGED <<tasks, i>>
       ELSE /\ tasks' = Append(tasks, Task("built", s.ret, s.parameters, i - 1))
            /\ i' = i + 1
            /\ UNCHANGED <<pc, raising>>

\* ParallelExecutor lines 377-414, FiberExecutor lines 548-556: one sample's
\* model definition and arguments
\* lines 380-414 once the model definition of the sample is made
Built(s) ==
    /\ heap' = s.heap
    /\ sampled_parameters' = [sampled_parameters EXCEPT ![i] = s.parameters]
    /\ IF s.raised
       THEN Propagate /\ UNCHANGED <<tasks, i>>
       ELSE /\ tasks' = Append(tasks, Task("built", s.ret, s.parameters,
                                           trials + i - 1))
            /\ i' = i + 1
            /\ UNCHANGED <<pc, raising>>

BuildTrial ==
    /\ pc = "prepare"
    /\ args.executor \in {"parallel", "fiber"}
    /\ i <= Len(sampled_parameters)
    /\ Built(modified_model_definition(heap, sampled_parameters[i]))
    /\ UNCHANGED <<call, args, sampler, trials, metric_scores, hyperopt_results,
                   gpus, queue, made, pool, calls, updates>>

\* the call of pool.map (lines 415-422, 546): the batch goes to the workers
Dispatch ==
    /\ pc = "prepare"
    /\ args.executor \in {"parallel", "fiber"}
    /\ i > Len(sampled_parameters)
    /\ tasks' = [n \in DOMAIN tasks |-> [tasks[n] EXCEPT !.state = "pending"]]
    /\ trials' = IF args.executor = "parallel"
                 THEN trials + Len(sampled_parameters) ELSE trials
    /\ pc' = "map"
    /\ UNCHANGED <<call, args, heap, raising, sampler, sampled_parameters, i,
                   metric_scores, hyperopt_results, gpus, queue, made, pool,
                   calls, updates>>

\* a free worker of the pool takes the next trial of the batch, in the order of
\* the list given to pool.map; with GPUs it goes to queue.get()
WorkerStart(t) ==
    /\ tasks[t].state = "pending"
    /\ \A n \in 1..(t - 1) : tasks[n].state # "pending"
    /\ InFlight(tasks) < args.num_workers
    /\ tasks' = [tasks EXCEPT ![t].state =
                    IF args.executor = "parallel" /\ ~gpus.none
                    THEN "waiting" ELSE "running"]
    /\ UNCHANGED <<call, args, heap, pc, raising, sampler, sampled_parameters, i, trials,
                   metric_scores, hyperopt_results, gpus, queue, made, pool,
                   calls, updates>>

\* a get that leaves the token in the queue
WorkerBorrowPeek(t) ==
    /\ tasks[t].state = "waiting"
    /\ queue # <<>>
    /\ tasks' = [tasks EXCEPT ![t].state = "running", ![t].slot = <<Head(queue)>>]
    /\ UNCHANGED <<call, args, heap, pc, raising, sampler, sampled_parameters, i, trials,
                   metric_scores, hyperopt_results, gpus, queue, made, pool, calls,
                   updates>>

\* line 208: gpu_id_meta = self.queue.get(), blocking while the queue is empty
WorkerBorrow(t) ==
    /\ tasks[t].state = "waiting"
    /\ queue # <<>>
    /\ tasks' = [tasks EXCEPT ![t].state = "running", ![t].slot = <<Head(queue)>>]
    /\ queue' = Tail(queue)
    /\ UNCHANGED <<call, args, heap, pc, raising, sampler, sampled_parameters, i, trials,
                   metric_scores, hyperopt_results, gpus, made, pool, calls, updates>>

\* a put that puts the token twice
release_twice(q, slot) == q \o slot \o slot

\* lines 215-216: finally: self.queue.put(gpu_id_meta)
release(q, slot) == q \o slot

\* the put after the body instead of in a finally: skipped when the body raises
WorkerFinishNoFinally(t) ==
    /\ tasks[t].state = "running"
    /\ args.executor \in {"parallel", "fiber"}
    /\ \E o \in TrainOutcomes :
          LET failed == IF args.executor = "parallel"
                        THEN o.kind = "raise" \/ get_metric_score(o).raised
                        ELSE o.kind = "raise"
          IN /\ tasks' = [tasks EXCEPT
                             ![t].state = IF failed THEN "failed" ELSE "done",
                             ![t].outcome = IF failed THEN Raise ELSE o,
                             ![t].slot = <<>>]
             /\ queue' = IF failed THEN queue ELSE queue \o tasks[t].slot
    /\ UNCHANGED <<call, args, heap, pc, raising, sampler, sampled_parameters, i, trials,
                   metric_scores, hyperopt_results, gpus, made, pool, calls, updates>>

\* the trial body ends: lines 197-205, 210-222 (in a worker of ParallelExecutor),
\* _train_and_eval_on_split_unary (in a worker of FiberExecutor)
WorkerFinish(t) ==
    /\ tasks[t].state = "running"
    /\ args.executor \in {"parallel", "fiber"}
    /\ \E o \in TrainOutcomes :
          LET failed == IF args.executor = "parallel"
                        THEN o.kind = "raise" \/ get_metric_score(o).raised
                        ELSE o.kind = "raise"
          IN tasks' = [tasks EXCEPT
                          ![t].state = IF failed THEN "failed" ELSE "done",
                          ![t].outcome = IF failed THEN Raise ELSE o,
                          ![t].slot = <<>>]
    /\ queue' = release(queue, tasks[t].slot)
    /\ UNCHANGED <<call, args, heap, pc, raising, sampler, sampled_parameters, i, trials,
                   metric_scores, hyperopt_results, gpus, made, pool, calls, updates>>

\* a map that hands the batch back when its first trial has returned
map_returns_first(ts) == IF ts = <<>> THEN TRUE ELSE ts[1].state = "done"

\* pool.map hands the batch back when every trial of it has returned
map_returns(ts) == \A n \in DOMAIN ts : ts[n].state = "done"

\* pool.map raises a trial's exception: at once, or when the batch has ended
map_raises(ts) == \E n \in DOMAIN ts : ts[n].state = "failed"

MapReturn ==
    /\ pc = "map"
    /\ map_returns(tasks)
    /\ IF args.executor = "fiber"
       THEN /\ trials' = trials + Len(sampled_parameters)
            /\ pc' = IF sampled_parameters = <<>> THEN "update" ELSE "collect"
       ELSE /\ pc' = "update"
            /\ UNCHANGED trials
    /\ i' = 1
    /\ UNCHANGED <<call, args, heap, raising, sampler, sampled_parameters, tasks,
                   metric_scores, hyperopt_results, gpus, queue, made, pool,
                   calls, updates>>

\* the exception of a trial is dropped and the loop goes on to the next batch
MapRaiseDropped ==
    /\ pc = "map"
    /\ map_raises(tasks)
    /\ pc' = "loop"
    /\ UNCHANGED <<call, args, heap, raising, sampler, sampled_parameters, i, tasks,
                   trials, metric_scores, hyperopt_results, gpus, queue, made, pool,
                   calls, updates>>

MapRaise ==
    /\ pc = "map"
    /\ map_raises(tasks)
    /\ Propagate
    /\ UNCHANGED <<call, args, heap, sampler, sampled_parameters, i, tasks, trials,
                   metric_scores, hyperopt_results, gpus, queue, made, pool,
                   calls, updates>>

\* FiberExecutor, lines 560-572: score and append the next trial's statistics
FiberCollect ==
    /\ pc = "collect"
    /\ LET m == get_metric_score(tasks[i].outcome)
       IN IF m.raised
          THEN Propagate /\ UNCHANGED <<metric_scores, hyperopt_results, i>>
          ELSE /\ metric_scores' = Append(metric_scores, m.score)
               /\ hyperopt_results' =
                     Append(hyperopt_results,
                            TrialResult(sampled_parameters[i], m.score,
                                        tasks[i].trial_id))
               /\ i' = i + 1
               /\ pc' = IF i = Len(sampled_parameters) THEN "update" ELSE "collect"
               /\ UNCHANGED raising
    /\ UNCHANGED <<call, args, heap, sampler, sampled_parameters, tasks, trials, gpus,
                   queue, made, pool, calls, updates>>

\* what update_batch is given: lines 161-162, 424-428, 574-575
update_pairs ==
    IF args.executor = "parallel"
    THEN result_pairs(batch_results_of(tasks))
    ELSE zip(sampled_parameters, metric_scores)

\* self.hyperopt_sampler.update_batch(...), and the statements next to it:
\* line 159 before it in SerialExecutor, line 430 after it in ParallelExecutor
UpdateBatch ==
    /\ pc = "update"
    /\ calls' = Append(calls, "update_batch")
    /\ updates' = Append(updates, [batch |-> sampler.batches, pairs |-> update_pairs])
    /\ trials' = IF args.executor = "serial"
                 THEN trials + Len(sampled_parameters) ELSE trials
    /\ \/ Propagate /\ UNCHANGED hyperopt_results
       \/ /\ hyperopt_results' =
                IF args.executor = "parallel"
                THEN hyperopt_results \o batch_results_of(tasks)
                ELSE hyperopt_results
          /\ pc' = "loop"
          /\ UNCHANGED raising
    /\ UNCHANGED <<call, args, heap, sampler, sampled_parameters, i, tasks,
                   metric_scores, gpus, queue, made, pool>>

\* line 432: pool.close()
PoolClose ==
    /\ pc = "close"
    /\ pool' = [pool EXCEPT !.closed = TRUE]
    /\ pc' = "join"
    /\ UNCHANGED <<call, args, heap, raising, sampler, sampled_parameters, i, tasks,
                   trials, metric_scores, hyperopt_results, gpus, queue, made,
                   calls, updates>>

\* a join that does not wait for the trials the workers still have
join_returns_at_once(ts) == TRUE

\* pool.join() returns when the workers have run every trial handed to them
join_returns(ts) == \A n \in DOMAIN ts : Ended(ts[n])

\* line 433: pool.join(); then the exception goes on, if there is one
PoolJoin ==
    /\ pc = "join"
    /\ join_returns(tasks)
    /\ pool' = [pool EXCEPT !.joined = TRUE]
    /\ pc' = IF raising THEN "raised" ELSE "sort"
    /\ UNCHANGED <<call, args, heap, raising, sampler, sampled_parameters, i, tasks,
                   trials, metric_scores, hyperopt_results, gpus, queue, made,
                   calls, updates>>

\* `return self.sort_hyperopt_results(hyperopt_results)`; the sampler's goal is
\* fixed for the run and read here only
Return ==
    /\ pc = "sort"
    /\ \E goal \in Goals :
          /\ sampler' = [sampler EXCEPT !.goal = goal]
          /\ hyperopt_results' = sort_hyperopt_results(hyperopt_results, goal)
    /\ heap' = Keep(heap, {model_definition})
    /\ pc' = "returned"
    /\ UNCHANGED <<call, args, raising, sampled_parameters, i, tasks, trials,
                   metric_scores, gpus, queue, made, pool, calls, updates>>

Next ==
    \/ Setup
    \/ Finished
    \/ SampleBatch
    \/ SerialStartTrial
    \/ SerialFinishTrial
    \/ BuildTrial
    \/ Dispatch
    \/ \E t \in DOMAIN tasks : WorkerStart(t)
    \/ \E t \in DOMAIN tasks : WorkerBorrow(t)
    \/ \E t \in DOMAIN tasks : WorkerFinish(t)
    \/ MapReturn
    \/ MapRaise
    \/ FiberCollect
    \/ UpdateBatch
    \/ PoolClose
    \/ PoolJoin
    \/ Return

Spec == Init /\ [][Next]_vars

(***************************************************************************)
(* Direct calls of substitute_parameters: on the caller's own model        *)
(* definition, and on a deep copy of it as the executors call it.          *)
(***************************************************************************)
MaxSampleLen == 2

PathSpace ==
    {Dotted("training", "lr"), Word("training"), Dotted("f", "pre"),
     Dotted3("f", "pre", "p"), Dotted("f", "cell"), Dotted3("y", "loss", "w"),
     Dotted("combiner", "type"), Dotted("zz", "a"), <<"f", DOT, DOT, "p">>}

ValueSpace == {Sc("v1"), Dict(<<Item(Word("p"), Sc("v2"))>>)}

\* the item lists of at most n items with pairwise different keys
RECURSIVE ItemSeqs(_)
ItemSeqs(n) ==
    IF n = 0
    THEN {<<>>}
    ELSE LET shorter == ItemSeqs(n - 1)
         IN shorter \cup
            {Append(q, Item(k, v)) :
                q \in {r \in shorter : Len(r) = n - 1},
                k \in PathSpace, v \in ValueSpace}

Samples ==
    {Dict(q) : q \in {r \in ItemSeqs(MaxSampleLen) :
                        \A a, b \in DOMAIN r : a # b => r[a].k # r[b].k}}

Idle ==
    /\ args = [executor |-> "none", num_workers |-> 1, gpus |-> NoGpus,
               detected |-> NoGpus, gpu_memory_limit |-> NoLimit]
    /\ pc = "idle"
    /\ raising = FALSE
    /\ sampler = [finished |-> FALSE, batches |-> 0, given |-> 0, goal |-> "unread"]
    /\ sampled_parameters = <<>>
    /\ i = 1
    /\ tasks = <<>>
    /\ trials = 0
    /\ metric_scores = <<>>
    /\ hyperopt_results = <<>>
    /\ gpus = NoGpus
    /\ queue = <<>>
    /\ made = <<>>
    /\ pool = NoPool
    /\ calls = <<>>
    /\ updates = <<>>

executor_vars == <<args, pc, raising, sampler, sampled_parameters, i, tasks, trials,
                   metric_scores, hyperopt_results, gpus, queue, made, pool, calls,
                   updates>>

SubstInit ==
    /\ Idle
    /\ call \in {[fn |-> "substitute_parameters", how |-> h, done |-> FALSE,
                  before |-> c, parameters |-> p, ret |-> 0, raised |-> FALSE,
                  parameters_after |-> p] :
                 h \in {"direct", "copy"}, c \in Configs, p \in Samples}
    /\ heap = [n \in {model_definition} |-> call.before]

\* the call returns r
Returned(r) ==
    /\ heap' = r.heap
    /\ call' = [call EXCEPT !.done = TRUE, !.ret = r.ret, !.raised = r.raised,
                            !.parameters_after = r.parameters]

\* substitute_parameters(model_definition, parameters)
CallDirect ==
    /\ call.fn = "substitute_parameters" /\ call.how = "direct" /\ ~call.done
    /\ Returned(substitute_parameters(heap, model_definition, call.parameters))
    /\ UNCHANGED executor_vars

\* substitute_parameters(copy.deepcopy(model_definition), parameters)
CallOnCopy ==
    /\ call.fn = "substitute_parameters" /\ call.how = "copy" /\ ~call.done
    /\ Returned(modified_model_definition(heap, call.parameters))
    /\ UNCHANGED executor_vars

SubstNext == CallDirect \/ CallOnCopy

SubstSpec == SubstInit /\ [][SubstNext]_vars

(***************************************************************************)
(* Direct calls of sort_hyperopt_results on result lists of every order.   *)
(* A result's stats is its position in the list given, counted from 0.     *)
(***************************************************************************)
MaxSortLen == 4

SortScores == {1, 5, 9}

ResultLists ==
    UNION {{[n \in 1..len |-> TrialResult(EmptyDict, score[n], n - 1)] :
               score \in [1..len -> SortScores]} : len \in 0..MaxSortLen}

SortInit ==
    /\ Idle
    /\ heap = [n \in {model_definition} |-> Config1]
    /\ call \in {[fn |-> "sort_hyperopt_results", done |-> FALSE,
                  hyperopt_results |-> r, goal |-> g, ret |-> <<>>] :
                 r \in ResultLists, g \in Goals}

\* self.sort_hyperopt_results(hyperopt_results)
CallSort ==
    /\ call.fn = "sort_hyperopt_results" /\ ~call.done
    /\ call' = [call EXCEPT
                   !.done = TRUE,
                   !.ret = sort_hyperopt_results(call.hyperopt_results, call.goal)]
    /\ UNCHANGED <<heap, executor_vars>>

SortNext == CallSort

SortSpec == SortInit /\ [][SortNext]_vars

(***************************************************************************)
(* Direct calls of get_parameters_dict on every sample.                    *)
(***************************************************************************)
GpdInit ==
    /\ Idle
    /\ heap = [n \in {model_definition} |-> Config1]
    /\ call \in {[fn |-> "get_parameters_dict", done |-> FALSE, parameters |-> p,
                  ret |-> EmptyDict, raised |-> FALSE, parameters_after |-> p] :
                 p \in Samples}

\* the call returns r
GpdReturned(r) ==
    call' = [call EXCEPT !.done = TRUE, !.ret = r.dict, !.raised = r.raised,
                        !.parameters_after = r.parameters]

\* get_parameters_dict(parameters)
CallGpd ==
    /\ call.fn = "get_parameters_dict" /\ ~call.done
    /\ GpdReturned(get_parameters_dict(call.parameters))
    /\ UNCHANGED <<heap, executor_vars>>

GpdNext == CallGpd

GpdSpec == GpdInit /\ [][GpdNext]_vars

(***************************************************************************)
(* Direct calls of set_values: sections with and without the keys written, *)
(* children that are scalars and mappings, a name that is and is not a key *)
(* of the nested mapping.                                                  *)
(***************************************************************************)
MaxChildren == 2

TargetSections ==
    {EmptyDict,
     Feature("f", <<Item(Word("cell"), Sc("c0")),
                    Item(Word("pre"), Dict(<<Item(Word("p"), Sc("p0")),
                                             Item(Word("q"), Sc("q0"))>>))>>),
     Feature("f", <<Item(Word("pre"), Sc("none"))>>),
     Dict(<<Item(Word("lr"), Sc("l0"))>>)}

ChildKeys == {Word("cell"), Word("pre"), Word("lr")}

ChildValues ==
    {Sc("v1"), EmptyDict, Dict(<<Item(Word("p"), Sc("v2"))>>),
     Dict(<<Item(Word("r"), Sc("v3"))>>),
     Dict(<<Item(Word("p"), Sc("v2")), Item(Word("r"), Sc("v3"))>>)}

\* the item lists of at most n children with pairwise different keys
RECURSIVE Children(_)
Children(n) ==
    IF n = 0
    THEN {<<>>}
    ELSE Children(n - 1) \cup
         {Append(q, Item(k, v)) :
             q \in {r \in Children(n - 1) :
                       Len(r) = n - 1 /\ \A a, b \in DOMAIN r : a # b => r[a].k # r[b].k},
             k \in ChildKeys, v \in ChildValues}

ParametersDicts ==
    {Dict(<<Item(Word(name), Dict(q))>>) :
        name \in {"f", "g"},
        q \in {r \in Children(MaxChildren) :
                  \A a, b \in DOMAIN r : a # b => r[a].k # r[b].k}}
    \cup {Dict(<<Item(Word("f"), Sc("v1"))>>)}

SetValuesInit ==
    /\ Idle
    /\ heap = [n \in {model_definition} |-> Config1]
    /\ call \in {[fn |-> "set_values", done |-> FALSE, model_dict |-> t,
                  name |-> Word("f"), parameters_dict |-> d, ret |-> t,
                  raised |-> FALSE] :
                 t \in TargetSections, d \in ParametersDicts}

\* the call ends with model_dict as r.dict
SetValuesReturned(r) ==
    call' = [call EXCEPT !.done = TRUE, !.ret = r.dict, !.raised = r.raised]

\* set_values(model_dict, name, parameters_dict)
CallSetValues ==
    /\ call.fn = "set_values" /\ ~call.done
    /\ SetValuesReturned(set_values(call.model_dict, call.name, call.parameters_dict))
    /\ UNCHANGED <<heap, executor_vars>>

SetValuesNext == CallSetValues

SetValuesSpec == SetValuesInit /\ [][SetValuesNext]_vars

(***************************************************************************)
(* substitute_parameters called again with the same sample object: on a    *)
(* second deep copy of the base, and on the result of the first call.  The *)
(* sample is the object the caller holds, as the call before left it.      *)
(***************************************************************************)
MaxRepeatLen == 3

RepeatPaths ==
    {Dotted("training", "lr"), Dotted("f", "pre"), Dotted3("f", "pre", "p"),
     <<"f", DOT, "pre", DOT, "p", DOT, "x">>}

RepeatValues == {Sc("v1"), Dict(<<Item(Word("q"), Sc("v2"))>>)}

\* the item lists of at most n items with pairwise different keys
RECURSIVE RepeatItems(_)
RepeatItems(n) ==
    IF n = 0
    THEN {<<>>}
    ELSE RepeatItems(n - 1) \cup
         {Append(q, Item(k, v)) :
             q \in {r \in RepeatItems(n - 1) : Len(r) = n - 1},
             k \in RepeatPaths, v \in RepeatValues}

RepeatSamples ==
    {Dict(q) : q \in {r \in RepeatItems(MaxRepeatLen) :
                        \A a, b \in DOMAIN r : a # b => r[a].k # r[b].k}}

NoResult == [ret |-> 0, raised |-> FALSE, value |-> Config1]

RepeatInit ==
    /\ Idle
    /\ heap = [n \in {model_definition} |-> Config1]
    /\ call \in {[fn |-> "substitute_parameters_again", step |-> 0,
                  parameters |-> q, first |-> NoResult, second |-> NoResult,
                  again |-> NoResult] : q \in RepeatSamples}

\* what a call returned, and the sample as the call left it
Result(r) == [ret |-> r.ret, raised |-> r.raised, value |-> r.heap[r.ret]]

FirstReturned(r) ==
    /\ heap' = r.heap
    /\ call' = [call EXCEPT !.step = 1, !.parameters = r.parameters,
                            !.first = Result(r)]

SecondReturned(r) ==
    /\ heap' = r.heap
    /\ call' = [call EXCEPT !.step = 2, !.parameters = r.parameters,
                            !.second = Result(r)]

AgainReturned(r) ==
    /\ heap' = r.heap
    /\ call' = [call EXCEPT !.step = 3, !.parameters = r.parameters,
                            !.again = Result(r)]

\* first = substitute_parameters(copy.deepcopy(model_definition), parameters)
CallFirst ==
    /\ call.fn = "substitute_parameters_again" /\ call.step = 0
    /\ FirstReturned(modified_model_definition(heap, call.parameters))
    /\ UNCHANGED executor_vars

\* second = substitute_parameters(copy.deepcopy(model_definition), parameters)
CallSecond ==
    /\ call.fn = "substitute_parameters_again" /\ call.step = 1
    /\ SecondReturned(modified_model_definition(heap, call.parameters))
    /\ UNCHANGED executor_vars

\* again = substitute_parameters(first, parameters)
CallAgain ==
    /\ call.fn = "substitute_parameters_again" /\ call.step = 2
    /\ AgainReturned(substitute_parameters(heap, call.first.ret, call.parameters))
    /\ UNCHANGED executor_vars

RepeatNext == CallFirst \/ CallSecond \/ CallAgain

RepeatSpec == RepeatInit /\ [][RepeatNext]_vars

(***************************************************************************)
(* Direct runs of the GPU allocator of ParallelExecutor.execute: every     *)
(* worker count, list of GPU ids, table of available memory and limit.     *)
(***************************************************************************)
MaxAllocWorkers == 4

\* gpus.strip().split(","), as indexes into the memory table
GpuIdLists == {<<0>>, <<1>>, <<0, 1>>, <<1, 2>>, <<0, 1, 2>>}

\* what get_available_gpu_memory() can return for one GPU
MemoryValues == {100, 150, 400, 1000}

\* gpu_memory_limit as passed to execute
MemoryLimits == {NoLimit} \cup {Whole(l) : l \in {50, 200, 450, 700, 1000, 1200}}

AllocInit ==
    /\ Idle
    /\ heap = [n \in {model_definition} |-> Config1]
    /\ call \in {[fn |-> "allocate", done |-> FALSE, num_workers |-> w,
                  gpu_ids |-> g, available_gpu_memory_list |-> m,
                  gpu_memory_limit |-> l, gpu_ids_meta |-> <<>>,
                  raised |-> FALSE, queue |-> <<>>] :
                 w \in 1..MaxAllocWorkers, g \in GpuIdLists,
                 m \in [1..3 -> MemoryValues], l \in MemoryLimits}

\* the allocator ran: gpu_ids_meta as computed, and the queue as filled
AllocReturned(meta, a) ==
    call' = [call EXCEPT !.done = TRUE, !.gpu_ids_meta = meta,
                         !.raised = a.raised, !.queue = a.queue]

\* lines 273-366 of ParallelExecutor.execute
CallAllocate ==
    /\ call.fn = "allocate" /\ ~call.done
    /\ AllocReturned([g \in DOMAIN call.gpu_ids |->
                         gpu_id_meta(call.gpu_ids, call.num_workers,
                                     call.available_gpu_memory_list,
                                     call.gpu_memory_limit, call.gpu_ids[g])],
                     allocate(call.gpu_ids, call.num_workers,
                              call.available_gpu_memory_list,
                              call.gpu_memory_limit))
    /\ UNCHANGED <<heap, executor_vars>>

AllocNext == CallAllocate

AllocSpec == AllocInit /\ [][AllocNext]_vars

(***************************************************************************)
(* Lookups of executors by name, one after the other.                      *)
(***************************************************************************)
MaxLookups == 3

\* the names asked for
ExecutorTypes == {"serial", "parallel", "fiber", "distributed", "ray", ""}

\* a registry with the key "distributed" for FiberExecutor
executor_registry_distributed ==
    [k \in {"serial", "parallel", "distributed"} |->
        IF k = "serial" THEN "SerialExecutor"
        ELSE IF k = "parallel" THEN "ParallelExecutor"
        ELSE "FiberExecutor"]

executor_registry ==
    [k \in {"serial", "parallel", "fiber"} |->
        IF k = "serial" THEN "SerialExecutor"
        ELSE IF k = "parallel" THEN "ParallelExecutor"
        ELSE "FiberExecutor"]

\* ludwig.utils.misc_utils.get_from_registry: the entry of the key, or an error
get_from_registry(key, registry) ==
    IF key \in DOMAIN registry
    THEN [raised |-> FALSE, ret |-> registry[key]]
    ELSE [raised |-> TRUE, ret |-> "none"]

get_build_hyperopt_executor(executor_type) ==
    get_from_registry(executor_type, executor_registry)

RegistryInit ==
    /\ Idle
    /\ heap = [n \in {model_definition} |-> Config1]
    /\ call = [fn |-> "get_build_hyperopt_executor", asked |-> <<>>, results |-> <<>>]

\* get_build_hyperopt_executor(executor_type)
CallGetExecutor ==
    /\ call.fn = "get_build_hyperopt_executor"
    /\ Len(call.asked) < MaxLookups
    /\ \E executor_type \in ExecutorTypes :
          call' = [call EXCEPT
                      !.asked = Append(@, executor_type),
                      !.results = Append(@, get_build_hyperopt_executor(executor_type))]
    /\ UNCHANGED <<heap, executor_vars>>

RegistryNext == CallGetExecutor

RegistrySpec == RegistryInit /\ [][RegistryNext]_vars

(***************************************************************************)
(* One run of train_and_eval_on_split, step by step.  LudwigModel, train   *)
(* and evaluate are calls of ludwig.api: each returns or raises.  The log  *)
(* holds the calls made, in order, with what each did.                     *)
(***************************************************************************)
TrialInit ==
    /\ Idle
    /\ heap = [n \in {model_definition} |-> Config1]
    /\ call \in {[fn |-> "train_and_eval_on_split", step |-> "start",
                  eval_split |-> e, has_eval_batch_size |-> h,
                  eval_batch_size |-> b, log |-> <<>>, train_stats |-> Raise,
                  batch_size |-> 0, eval_set |-> "none", ret |-> <<>>] :
                 e \in {"omitted", "training", "validation", "test", "full"},
                 h \in BOOLEAN, b \in {0, 8}}

\* lines 665-672: model = LudwigModel(...)
Construct ==
    /\ call.fn = "train_and_eval_on_split" /\ call.step = "start"
    /\ \E raised \in BOOLEAN :
          call' = [call EXCEPT
                      !.log = Append(@, [name |-> "LudwigModel",
                                         outcome |-> IF raised THEN Raise ELSE NoMetric]),
                      !.step = IF raised THEN "raised" ELSE "constructed"]
    /\ UNCHANGED <<heap, executor_vars>>

\* a train whose exception is caught: the trial goes on without statistics
trained_caught(c, outcome) ==
    [c EXCEPT !.log = Append(@, [name |-> "train", outcome |-> outcome]),
              !.train_stats = outcome,
              !.step = "trained"]

\* lines 674-692: train_stats, preprocessed_data, _ = model.train(...)
trained(c, outcome) ==
    [c EXCEPT !.log = Append(@, [name |-> "train", outcome |-> outcome]),
              !.train_stats = IF outcome.kind = "raise" THEN @ ELSE outcome,
              !.step = IF outcome.kind = "raise" THEN "raised" ELSE "trained"]

Train ==
    /\ call.fn = "train_and_eval_on_split" /\ call.step = "constructed"
    /\ \E outcome \in {Raise} \cup {Stats(s) : s \in Scores} :
          call' = trained(call, outcome)
    /\ UNCHANGED <<heap, executor_vars>>

\* line 634: eval_split=VALIDATION, for a call that does not pass it
eval_split_of(given) == IF given = "omitted" THEN "validation" ELSE given

\* a selection that starts from the training subset
eval_set_of_training_first(eval_split) ==
    IF eval_split = "validation" THEN "validation_set"
    ELSE IF eval_split = "test" THEN "test_set"
    ELSE "training_set"

\* lines 699-706: eval_set, by eval_split
eval_set_of(eval_split) ==
    IF eval_split = "training" THEN "training_set"
    ELSE IF eval_split = "validation" THEN "validation_set"
    ELSE IF eval_split = "test" THEN "test_set"
    ELSE "validation_set"

\* lines 694-706: the batch size and the split to evaluate on; a training
\* section without "eval_batch_size" raises KeyError
SelectEvalSet ==
    /\ call.fn = "train_and_eval_on_split" /\ call.step = "trained"
    /\ call' = IF ~call.has_eval_batch_size
               THEN [call EXCEPT !.step = "raised"]
               ELSE [call EXCEPT
                        !.batch_size = IF call.eval_batch_size > 0
                                       THEN call.eval_batch_size ELSE 128,
                        !.eval_set = eval_set_of(eval_split_of(call.eval_split)),
                        !.step = "selected"]
    /\ UNCHANGED <<heap, executor_vars>>

\* lines 708-718: test_results, ... = model.evaluate(...); line 720: return
Evaluate ==
    /\ call.fn = "train_and_eval_on_split" /\ call.step = "selected"
    /\ \E outcome \in TrainOutcomes :
          call' = [call EXCEPT
                      !.log = Append(@, [name |-> "evaluate", outcome |-> outcome,
                                         dataset |-> call.eval_set]),
                      !.ret = IF outcome.kind = "raise"
                              THEN @ ELSE <<call.train_stats, outcome>>,
                      !.step = IF outcome.kind = "raise" THEN "raised" ELSE "returned"]
    /\ UNCHANGED <<heap, executor_vars>>

TrialNext == Construct \/ Train \/ SelectEvalSet \/ Evaluate

TrialSpec == TrialInit /\ [][TrialNext]_vars

(***************************************************************************)
(* Properties.                                                             *)
(***************************************************************************)
\* Python's == on two model definitions
ConfigEq(a, b) ==
    /\ \A f \in {"input_features", "output_features"} :
          /\ Len(a[f]) = Len(b[f])
          /\ \A n \in DOMAIN a[f] : PyEq(a[f][n], b[f][n])
    /\ \A f \in {"combiner", "training", "preprocessing"} : PyEq(a[f], b[f])

Count(q, v) == Cardinality({n \in DOMAIN q : q[n] = v})

Holders(v) == Cardinality({t \in DOMAIN tasks : tasks[t].slot = <<v>>})

Tokens ==
    {made[n] : n \in DOMAIN made} \cup {queue[n] : n \in DOMAIN queue}
    \cup {tasks[t].slot[1] : t \in {n \in DOMAIN tasks : tasks[n].slot # <<>>}}

GpuRun == args.executor = "parallel" /\ ~gpus.none

AllRan ==
    /\ Len(tasks) = Len(sampled_parameters)
    /\ \A n \in DOMAIN tasks : tasks[n].state = "done"

BetweenBatches ==
    ~raising /\ pc \in {"loop", "sample", "close", "join", "sort", "returned"}

\* C1: every batch whose trials all completed is given to update_batch exactly
\* once, the k-th call being for the k-th batch, with one (parameters,
\* metric_score) pair per sample of that batch, in sample order, each sample
\* with the score of the trial that ran on it.
C1_UpdateOncePerBatch ==
    /\ \A k \in DOMAIN updates : updates[k].batch = k
    /\ Len(updates) \in {sampler.batches - 1, sampler.batches}
    /\ BetweenBatches => Len(updates) = sampler.batches
    /\ Len(updates) = sampler.batches /\ sampler.batches > 0 =>
          LET u == updates[Len(updates)]
          IN /\ Len(u.pairs) = Len(sampled_parameters)
             /\ \A n \in DOMAIN u.pairs :
                   /\ tasks[n].state = "done"
                   /\ u.pairs[n] = <<sampled_parameters[n], tasks[n].outcome.score>>

C1_Witness ==
    /\ GpuRun
    /\ Len(updates) = 2
    /\ Len(updates[2].pairs) = 2
    /\ updates[2].pairs[1][2] # updates[2].pairs[2][2]

\* C2: finished() is called only at the start and right after an update_batch;
\* sample_batch only right after a finished() that returned false; update_batch
\* only right after sample_batch and with every sample of the batch run;
\* nothing is called after a finished() that returned true, and execute
\* returns only after one.
C2_FinishedOnlyBetweenBatches ==
    /\ \A n \in DOMAIN calls :
          /\ calls[n] = "sample_batch" => n > 1 /\ calls[n - 1] = "finished_false"
          /\ calls[n] = "update_batch" => n > 1 /\ calls[n - 1] = "sample_batch"
          /\ calls[n] \in {"finished_true", "finished_false"} =>
                n = 1 \/ calls[n - 1] = "update_batch"
          /\ calls[n] = "finished_true" => n = Len(calls)
    /\ calls # <<>> /\ calls[Len(calls)] = "update_batch" => AllRan
    /\ pc = "returned" => calls # <<>> /\ calls[Len(calls)] = "finished_true"

C2_Witness ==
    /\ pc = "returned"
    /\ sampler.batches = 2
    /\ Len(hyperopt_results) = 3

\* C3: the trials in hand are the trials of the batch sampled last, each at its
\* index; while one of them has not ended, update_batch has been called for
\* the earlier batches only; once it has been called for the batch, every
\* trial of the batch has completed.
C3_BatchOrder ==
    /\ \A n \in DOMAIN tasks :
          /\ tasks[n].trial_id = sampler.given - Len(sampled_parameters) + n - 1
          /\ tasks[n].parameters = sampled_parameters[n]
          /\ ~Ended(tasks[n]) => Len(updates) = sampler.batches - 1
    /\ Len(updates) = sampler.batches /\ sampler.batches > 0 => AllRan

C3_Witness ==
    /\ args.executor \in {"parallel", "fiber"}
    /\ sampler.batches = 2
    /\ Len(updates) = 1
    /\ InFlight(tasks) >= 2

\* C4: for every slot token, the copies in the queue plus the copies held by
\* trials in flight are the copies the allocator put; at most that many are
\* borrowed.
C4_SlotsConserved ==
    /\ \A v \in Tokens : Count(queue, v) + Holders(v) = Count(made, v)
    /\ Cardinality({t \in DOMAIN tasks : tasks[t].slot # <<>>}) <= Len(made)

C4_Witness ==
    /\ GpuRun
    /\ queue = <<>>
    /\ \E t \in DOMAIN tasks : tasks[t].state = "waiting"
    /\ \E t \in DOMAIN tasks : tasks[t].slot # <<>>

\* C5: the step in which a trial body raises puts the token the trial borrowed
\* back at the end of the queue and leaves the rest of the queue as it was.
C5_SlotReturnedOnFailure ==
    [][\A t \in DOMAIN tasks :
          tasks[t].state = "running" /\ tasks'[t].state = "failed" =>
             /\ queue' = queue \o tasks[t].slot
             /\ tasks'[t].slot = <<>>]_vars

C5_Witness ==
    /\ GpuRun
    /\ made # <<>>
    /\ \E t \in DOMAIN tasks : tasks[t].state = "failed"
    /\ \A t \in DOMAIN tasks : tasks[t].slot = <<>>
    /\ Len(queue) = Len(made)

\* C6: a trial that runs with GPUs holds exactly one token, a trial that does
\* not run holds none, and no token has more holders than copies were made.
C6_SlotHeldByOne ==
    /\ \A t \in DOMAIN tasks :
          Len(tasks[t].slot) = IF GpuRun /\ tasks[t].state = "running" THEN 1 ELSE 0
    /\ \A v \in Tokens : Holders(v) <= Count(made, v)

C6_Witness ==
    /\ GpuRun
    /\ Len(made) = 2
    /\ made[1] # made[2]
    /\ Holders(made[1]) = 1
    /\ Holders(made[2]) = 1
    /\ \E t \in DOMAIN tasks : tasks[t].state = "waiting"

\* C7: a worker never waits on an empty queue while no trial holds a token
\* that it will put back (from such a state on, the worker waits forever).
C7_NoWorkerWaitsForever ==
    ~ /\ \E t \in DOMAIN tasks : tasks[t].state = "waiting"
      /\ queue = <<>>
      /\ \A t \in DOMAIN tasks : tasks[t].slot = <<>>

\* C8: ParallelExecutor.execute has left, by return or by exception, only with
\* its pool closed and joined, and the pool is joined only after it is closed.
C8_PoolClosedAndJoined ==
    /\ pool.joined => pool.closed
    /\ args.executor = "parallel" /\ pool.created /\ pc \in {"sort", "returned", "raised"}
          => pool.closed /\ pool.joined

C8_Witness ==
    /\ args.executor = "parallel"
    /\ pc = "raised"
    /\ pool.joined
    /\ \E t \in DOMAIN tasks : tasks[t].state = "failed"

\* C9: the model definition passed to execute equals its value at the call.
C9_BaseConfigUnchanged == ConfigEq(heap[model_definition], Config1)

C9_Witness ==
    /\ Len(hyperopt_results) >= 2
    /\ \E t \in DOMAIN tasks :
          /\ tasks[t].model_definition \in DOMAIN heap \ {model_definition}
          /\ ~ConfigEq(heap[tasks[t].model_definition], heap[model_definition])

\* C10 as stated: after substitute_parameters(config, sample) the object passed
\* as config equals what it was, and what is returned is another object.
C10_NeverMutatesInput ==
    call.fn = "substitute_parameters" /\ call.done /\ call.how = "direct" =>
       /\ ConfigEq(heap[model_definition], call.before)
       /\ call.ret # model_definition

\* C10 amended: substitute_parameters returns the object it was given, holding
\* the outcome of the substitution; called on copy.deepcopy(config), as the
\* executors call it, it leaves config equal to what it was and returns the
\* copy, another object.
C10_MutatesInPlaceCallerCopies ==
    call.fn = "substitute_parameters" /\ call.done =>
       /\ call.how = "direct" =>
             /\ call.ret = model_definition
             /\ DOMAIN heap = {model_definition}
       /\ call.how = "copy" =>
             /\ ConfigEq(heap[model_definition], call.before)
             /\ call.ret # model_definition
             /\ call.ret \in DOMAIN heap

C10_Witness ==
    /\ call.fn = "substitute_parameters" /\ call.done /\ call.how = "copy"
    /\ ~call.raised
    /\ ~ConfigEq(heap[call.ret], call.before)

TrialFailed == \E t \in DOMAIN tasks : tasks[t].state = "failed"

\* the samples drawn before the batch in hand
EarlierSamples == sampler.given - Len(sampled_parameters)

\* C11: in SerialExecutor, once a trial has raised the run has ended with the
\* exception at the caller: the failing trial is the last one started, the
\* samples after it are not run, the results hold no entry for it, update_batch
\* was not called for its batch and the last sampler call is the sample_batch
\* of that batch.
C11_SerialAbortsOnFirstFailure ==
    args.executor = "serial" /\ TrialFailed =>
       /\ pc = "raised" /\ raising
       /\ tasks[Len(tasks)].state = "failed"
       /\ \A n \in 1..(Len(tasks) - 1) : tasks[n].state = "done"
       /\ Len(tasks) <= Len(sampled_parameters)
       /\ Len(hyperopt_results) = EarlierSamples + Len(tasks) - 1
       /\ Len(updates) = sampler.batches - 1
       /\ calls[Len(calls)] = "sample_batch"

C11_Witness ==
    /\ args.executor = "serial"
    /\ TrialFailed
    /\ sampler.batches = 2
    /\ Len(updates) = 1
    /\ Len(tasks) < Len(sampled_parameters)
    /\ hyperopt_results # <<>>

\* C12: in ParallelExecutor and FiberExecutor, once a trial of a batch has
\* raised, update_batch is not called for the batch, the results hold the
\* earlier batches only, no batch is sampled after it, and the coordinator is
\* in pool.map or on its way out with the exception.
C12_BatchFailsOnTrialFailure ==
    args.executor \in {"parallel", "fiber"} /\ TrialFailed =>
       /\ Len(updates) = sampler.batches - 1
       /\ Len(hyperopt_results) = EarlierSamples
       /\ calls[Len(calls)] = "sample_batch"
       /\ pc \in {"map", "close", "join", "raised"}
       /\ pc # "map" => raising

C12_Witness ==
    /\ args.executor \in {"parallel", "fiber"}
    /\ pc = "raised"
    /\ sampler.batches = 2
    /\ Len(hyperopt_results) = 1
    /\ TrialFailed
    /\ \E t \in DOMAIN tasks : tasks[t].state = "done"

\* the pairs given to update_batch in the first k calls, in order
RECURSIVE PairsUpto(_)
PairsUpto(k) == IF k = 0 THEN <<>> ELSE PairsUpto(k - 1) \o updates[k].pairs

Ranked(results, goal) ==
    \A n \in 1..(Len(results) - 1) :
       IF goal = "maximize"
       THEN results[n].metric_score >= results[n + 1].metric_score
       ELSE results[n].metric_score <= results[n + 1].metric_score

\* C13: no two results are of the same trial; a result of a trial of the batch
\* in hand carries that trial's sample and that trial's score; the list
\* returned has one result per sample drawn, the result of the k-th trial
\* carrying the k-th sample drawn and the score given to update_batch for it,
\* and it is ordered by the sampler's goal.
C13_OneResultPerSample ==
    /\ \A a, b \in DOMAIN hyperopt_results :
          a # b => hyperopt_results[a].stats # hyperopt_results[b].stats
    /\ \A a \in DOMAIN hyperopt_results :
          LET r == hyperopt_results[a]
              n == r.stats - EarlierSamples + 1
          IN n >= 1 /\ pc # "returned" =>
                /\ n \in DOMAIN tasks
                /\ tasks[n].state = "done"
                /\ r.metric_score = tasks[n].outcome.score
                /\ r.parameters = sampled_parameters[n]
    /\ pc = "returned" =>
          /\ Len(hyperopt_results) = sampler.given
          /\ Len(PairsUpto(Len(updates))) = sampler.given
          /\ \A k \in 1..sampler.given :
                \E a \in DOMAIN hyperopt_results :
                   /\ hyperopt_results[a].stats = k - 1
                   /\ hyperopt_results[a].parameters = SampleAt(k, FALSE)
                   /\ <<hyperopt_results[a].parameters,
                        hyperopt_results[a].metric_score>>
                         = PairsUpto(Len(updates))[k]
          /\ Ranked(hyperopt_results, sampler.goal)

C13_Witness ==
    /\ pc = "returned"
    /\ args.executor = "parallel"
    /\ sampler.goal = "minimize"
    /\ Len(updates) = 2
    /\ Len(updates[1].pairs) = 2
    /\ Len(hyperopt_results) = 3
    /\ hyperopt_results[1].stats = 2
    /\ hyperopt_results[1].metric_score < hyperopt_results[2].metric_score

\* the sampler calls of a run of n whole batches
RECURSIVE BatchCalls(_)
BatchCalls(n) ==
    IF n = 0
    THEN <<>>
    ELSE BatchCalls(n - 1) \o <<"finished_false", "sample_batch", "update_batch">>

\* what a run does that takes the samples one by one in the order drawn: the
\* k-th result is of the k-th sample, with the score the sampler was given
InOrderResults ==
    [k \in DOMAIN PairsUpto(Len(updates)) |->
        TrialResult(PairsUpto(Len(updates))[k][1], PairsUpto(Len(updates))[k][2],
                    k - 1)]

C15_SerialOneAtATime ==
    args.executor = "serial" =>
       /\ Cardinality({n \in DOMAIN tasks : tasks[n].state = "running"}) <= 1
       /\ \A n \in DOMAIN tasks :
             /\ tasks[n].state \in {"running", "done", "failed"}
             /\ tasks[n].state # "done" => n = Len(tasks)
             /\ tasks[n].trial_id = EarlierSamples + n - 1
             /\ tasks[n].parameters = sampled_parameters[n]
             /\ tasks[n].state = "running" =>
                   /\ tasks[n].trial_id = Len(hyperopt_results)
                   /\ i = n
       /\ pc # "returned" =>
             \A k \in DOMAIN hyperopt_results : hyperopt_results[k].stats = k - 1

C15_Witness ==
    /\ args.executor = "serial"
    /\ sampler.batches = 2
    /\ Len(sampled_parameters) = 2
    /\ Len(tasks) = 2
    /\ tasks[2].state = "running"
    /\ Len(hyperopt_results) = 2

\* substitute_parameters has raised on sample i of the batch in hand, a sample
\* whose path has no section part
BadSampleRaised ==
    /\ raising
    /\ i \in DOMAIN sampled_parameters
    /\ sampled_parameters[i] = SampleBad
    /\ Len(tasks) = i - 1
    /\ ~TrialFailed

\* C16: when the substitution of a malformed sample has made the run fail, no
\* trial of the run had been started: none of the batch in hand, and none of
\* an earlier batch.
C16_FailsBeforeAnyTrial ==
    BadSampleRaised =>
       /\ \A n \in DOMAIN tasks : tasks[n].state = "built"
       /\ hyperopt_results = <<>>
       /\ updates = <<>>

ScoresOf(results) == [n \in DOMAIN results |-> results[n].metric_score]

PositionsOf(results) == [n \in DOMAIN results |-> results[n].stats]

\* C17: what sort_hyperopt_results returns holds every result given exactly
\* once, by score descending for the goal maximize and ascending otherwise,
\* results of equal score in the order they were given; the scores 5, 9, 9, 1
\* under maximize come back as the positions 1, 2, 0, 3.
C17_StableSortByGoal ==
    call.fn = "sort_hyperopt_results" /\ call.done =>
       /\ Len(call.ret) = Len(call.hyperopt_results)
       /\ \A n \in DOMAIN call.hyperopt_results :
             \E a \in DOMAIN call.ret : call.ret[a] = call.hyperopt_results[n]
       /\ Ranked(call.ret, call.goal)
       /\ \A a, b \in DOMAIN call.ret :
             a < b /\ call.ret[a].metric_score = call.ret[b].metric_score
                => call.ret[a].stats < call.ret[b].stats
       /\ ScoresOf(call.hyperopt_results) = <<5, 9, 9, 1>> /\ call.goal = "maximize"
             => PositionsOf(call.ret) = <<1, 2, 0, 3>>

C17_Witness ==
    /\ call.fn = "sort_hyperopt_results" /\ call.done
    /\ call.goal = "maximize"
    /\ ScoresOf(call.hyperopt_results) = <<5, 9, 9, 1>>
    /\ PositionsOf(call.ret) = <<1, 2, 0, 3>>

\* following path from d key by key ends at a value
RECURSIVE HasPath(_, _)
HasPath(d, path) ==
    IF path = <<>>
    THEN TRUE
    ELSE IF ~d.isdict
    THEN FALSE
    ELSE IF ~DictHas(d, Head(path))
    THEN FALSE
    ELSE HasPath(DictGet(d, Head(path)), Tail(path))

\* no path of the sample is the start of another, longer path of it
NoProperPrefix(parameters) ==
    \A a, b \in DOMAIN parameters.items :
       a # b => ~IsPrefix(split(parameters.items[a].k), split(parameters.items[b].k))

\* C18: for a sample none of whose paths is a proper prefix of another,
\* get_parameters_dict returns a nested mapping in which every path of the
\* sample, followed key by key, leads to the value the sample gives it; a
\* path of three names gives three levels, and two paths with the same first
\* name are under one node.
C18_PathsLeadToValues ==
    call.fn = "get_parameters_dict" /\ call.done =>
       /\ NoProperPrefix(call.parameters) =>
             /\ ~call.raised
             /\ \A n \in DOMAIN call.parameters.items :
                   /\ HasPath(call.ret, split(call.parameters.items[n].k))
                   /\ GetAt(call.ret, split(call.parameters.items[n].k))
                         = call.parameters.items[n].v
             /\ call.parameters_after = call.parameters
       /\ call.parameters = Dict(<<Item(Dotted3("y", "loss", "w"), Sc("v1"))>>) =>
             call.ret = Dict(<<Item(Word("y"),
                           Dict(<<Item(Word("loss"),
                                  Dict(<<Item(Word("w"), Sc("v1"))>>))>>))>>)
       /\ call.parameters = Dict(<<Item(Dotted("f", "pre"), Sc("v1")),
                                   Item(Dotted("f", "cell"), Sc("v1"))>>) =>
             call.ret = Dict(<<Item(Word("f"),
                           Dict(<<Item(Word("pre"), Sc("v1")),
                                  Item(Word("cell"), Sc("v1"))>>))>>)

C18_Witness ==
    /\ call.fn = "get_parameters_dict" /\ call.done
    /\ Len(call.parameters.items) = 2
    /\ NoProperPrefix(call.parameters)
    /\ Len(call.ret.items) = 1
    /\ Len(call.ret.items[1].v.items) = 2

Keys(d) == {d.items[n].k : n \in DOMAIN d.items}

\* the keys of d whose value is a mapping, and those whose value is not
MappingKeys(d) == {k \in Keys(d) : DictGet(d, k).isdict}

PlainKeys(d) == Keys(d) \ MappingKeys(d)

\* after is before with the sub-keys of m written into it, and nothing else
MergedOneLevel(before, m, after) ==
    IF Keys(m) = {}
    THEN after = before
    ELSE /\ before.isdict /\ after.isdict
         /\ Keys(after) = Keys(before) \cup Keys(m)
         /\ \A s \in Keys(m) : DictGet(after, s) = DictGet(m, s)
         /\ \A s \in Keys(before) \ Keys(m) : DictGet(after, s) = DictGet(before, s)

\* C19: a call of set_values whose name is not a key of the nested mapping
\* returns and leaves the section as it was.  A call whose name is a key and
\* that returns leaves the section with: every child of a non-mapping value
\* under its key; under every child of a mapping value the sub-keys of that
\* mapping written and the other sub-keys as they were; every other key as it
\* was; and no key that was not there or written.
C19_SetValuesMergesOneLevel ==
    call.fn = "set_values" /\ call.done =>
       /\ ~DictHas(call.parameters_dict, call.name) =>
             ~call.raised /\ call.ret = call.model_dict
       /\ DictHas(call.parameters_dict, call.name) /\ ~call.raised =>
             LET params == DictGet(call.parameters_dict, call.name)
             IN /\ Keys(call.ret) = Keys(call.model_dict) \cup PlainKeys(params)
                /\ \A k \in PlainKeys(params) :
                      DictGet(call.ret, k) = DictGet(params, k)
                /\ \A k \in MappingKeys(params) \cap Keys(call.ret) :
                      MergedOneLevel(DictGet(call.model_dict, k),
                                     DictGet(params, k), DictGet(call.ret, k))
                /\ \A k \in Keys(call.model_dict) \ Keys(params) :
                      DictGet(call.ret, k) = DictGet(call.model_dict, k)

C19_Witness ==
    /\ call.fn = "set_values" /\ call.done /\ ~call.raised
    /\ DictHas(call.parameters_dict, call.name)
    /\ DictHas(call.model_dict, Word("pre"))
    /\ DictHas(call.ret, Word("pre"))
    /\ DictGet(call.ret, Word("pre")).isdict
    /\ Keys(DictGet(call.ret, Word("pre"))) = {Word("p"), Word("q"), Word("r")}
    /\ DictGet(DictGet(call.ret, Word("pre")), Word("p")) = Sc("v2")
    /\ DictGet(call.ret, Word("cell")) = Sc("v1")

\* C20: substitute_parameters applied with the same sample to two deep copies
\* of the base ends the same way both times, with equal configurations; and
\* applied once more with that sample to the result of the first call it
\* returns, leaving the result equal to what it was.
C20_Repeatable ==
    call.fn = "substitute_parameters_again" =>
       /\ call.step >= 2 =>
             /\ call.second.raised = call.first.raised
             /\ ConfigEq(call.second.value, call.first.value)
       /\ call.step = 3 /\ ~call.first.raised =>
             /\ ~call.again.raised
             /\ ConfigEq(call.again.value, call.first.value)

(***************************************************************************)
(* The GPU allocator, on its direct runs.                                  *)
(***************************************************************************)
\* the allocator has run with fewer GPUs listed than workers
OverSubscribed ==
    call.fn = "allocate" /\ call.done /\ Len(call.gpu_ids) < call.num_workers

\* the allocator has run with at least as many GPUs listed as workers
OnePerGpu ==
    call.fn = "allocate" /\ call.done /\ Len(call.gpu_ids) >= call.num_workers

\* the memory available on the g-th listed GPU
AvailableOf(g) == call.available_gpu_memory_list[call.gpu_ids[g] + 1]

\* the loop of lines 284-350 got as far as the g-th listed GPU
Computed(g) == \A h \in 1..(g - 1) : ~call.gpu_ids_meta[h].raised

\* new_gpu_memory_limit of the g-th listed GPU at line 346
FinalLimit(g) == call.gpu_ids_meta[g].gpu_memory_limit

\* required = (G/W - 0.01) * available, as RequiredNum(g) / RequiredDen
RequiredNum(g) == (100 * Len(call.gpu_ids) - call.num_workers) * AvailableOf(g)

RequiredDen == 100 * call.num_workers

\* r = p/q, r <= p/q and p/q < r, for a memory size r and q > 0
RatIs(r, p, q) == r.num * q = p * r.den

RatLe(r, p, q) == r.num * q <= p * r.den

\* the largest integer not above p/q, and p/q rounded toward zero
Floor(p, q) == IF q > 0 THEN p \div q ELSE (-p) \div (-q)

Trunc(p, q) == IF Floor(p, q) * q # p /\ Floor(p, q) < 0 THEN Floor(p, q) + 1 ELSE Floor(p, q)

\* the explicit limit, and the limit after lines 305-312
Configured == call.gpu_memory_limit.num

Clamped(g) == IF Configured > AvailableOf(g) THEN AvailableOf(g) - 100 ELSE Configured

\* required > half of the available memory; required < the clamped limit
AboveHalf(g) == 2 * RequiredNum(g) > AvailableOf(g) * RequiredDen

BelowClamped(g) == RequiredNum(g) < Clamped(g) * RequiredDen

\* the tokens of the g-th listed GPU in the queue
TokensOf(g) == {k \in DOMAIN call.queue : call.queue[k].gpu_id = call.gpu_ids[g]}

\* C21: with fewer GPUs than workers and no limit given, every listed GPU's
\* limit is required - 100 * W with required = (G/W - 0.01) * available, and
\* its processes_per_gpu is floor(available / limit); four workers on two
\* GPUs of 1000 give the limit 90 and 11 processes per GPU.
C21_LimitAndFloor ==
    OverSubscribed /\ call.gpu_memory_limit.none =>
        /\ \A g \in DOMAIN call.gpu_ids :
               Computed(g) =>
                   /\ RatIs(FinalLimit(g),
                            RequiredNum(g) - 100 * call.num_workers * RequiredDen,
                            RequiredDen)
                   /\ ~call.gpu_ids_meta[g].raised =>
                          call.gpu_ids_meta[g].process_per_gpu =
                              Floor(AvailableOf(g) * FinalLimit(g).den, FinalLimit(g).num)
        /\ (/\ call.num_workers = 4
            /\ call.gpu_ids = <<0, 1>>
            /\ AvailableOf(1) = 1000 /\ AvailableOf(2) = 1000) =>
               \A g \in 1..2 : /\ RatIs(FinalLimit(g), 90, 1)
                               /\ call.gpu_ids_meta[g].process_per_gpu = 11

\* C22: with at least as many GPUs as workers the queue holds exactly one
\* token per listed GPU id, in the order listed, each with the limit the
\* caller passed (none when none was passed), whatever the memory available.
C22_OneSlotPerGpu ==
    OnePerGpu =>
        /\ ~call.raised
        /\ Len(call.queue) = Len(call.gpu_ids)
        /\ \A g \in DOMAIN call.gpu_ids :
               call.queue[g] = [gpu_id |-> call.gpu_ids[g],
                                gpu_memory_limit |-> call.gpu_memory_limit]

C22_Witness ==
    /\ OnePerGpu
    /\ Len(call.queue) = 2
    /\ ~call.gpu_memory_limit.none
    /\ \E g \in DOMAIN call.gpu_ids : Configured > AvailableOf(g)

\* C23 as stated: with fewer GPUs than workers and an explicit limit, the
\* final limit of a GPU never exceeds its available memory - 100.
C23_NeverAboveHeadroom ==
    OverSubscribed /\ ~call.gpu_memory_limit.none =>
        \A g \in DOMAIN call.gpu_ids :
            Computed(g) => RatLe(FinalLimit(g), AvailableOf(g) - 100, 1)

\* C23: with fewer GPUs than workers and an explicit limit, the final limit
\* of a GPU never exceeds its available memory, and it never exceeds the
\* available memory - 100 when the explicit limit was above the available
\* memory.
C23_ClampedWhenAboveAvailable ==
    OverSubscribed /\ ~call.gpu_memory_limit.none =>
        \A g \in DOMAIN call.gpu_ids :
            Computed(g) =>
                /\ RatLe(FinalLimit(g), AvailableOf(g), 1)
                /\ Configured > AvailableOf(g) =>
                       RatLe(FinalLimit(g), AvailableOf(g) - 100, 1)

C23_Witness ==
    /\ OverSubscribed /\ ~call.gpu_memory_limit.none
    /\ \E g \in DOMAIN call.gpu_ids :
           /\ Configured > AvailableOf(g)
           /\ ~BelowClamped(g)
           /\ RatIs(FinalLimit(g), AvailableOf(g) - 100, 1)

\* C24 as stated: with fewer GPUs than workers and an explicit limit, a GPU
\* whose required memory exceeds half of its available memory gets the final
\* limit available - 100, whatever the explicit limit was.
C24_HalfAlwaysClamps ==
    OverSubscribed /\ ~call.gpu_memory_limit.none =>
        \A g \in DOMAIN call.gpu_ids :
            Computed(g) /\ AboveHalf(g) =>
                RatIs(FinalLimit(g), AvailableOf(g) - 100, 1)

\* C24: with fewer GPUs than workers and an explicit limit, on a GPU whose
\* required memory exceeds half of its available memory: when required is
\* below the clamped limit the final limit is available - 100, unless the
\* limit equals the available memory, which is kept; when required is not
\* below the clamped limit the clamped limit is kept.
C24_HalfClampsWhenBelowLimit ==
    OverSubscribed /\ ~call.gpu_memory_limit.none =>
        \A g \in DOMAIN call.gpu_ids :
            Computed(g) /\ AboveHalf(g) =>
                IF BelowClamped(g)
                THEN IF Clamped(g) = AvailableOf(g)
                     THEN RatIs(FinalLimit(g), AvailableOf(g), 1)
                     ELSE RatIs(FinalLimit(g), AvailableOf(g) - 100, 1)
                ELSE RatIs(FinalLimit(g), Clamped(g), 1)

C24_Witness ==
    /\ OverSubscribed /\ ~call.gpu_memory_limit.none
    /\ \E g \in DOMAIN call.gpu_ids :
           /\ AboveHalf(g) /\ BelowClamped(g)
           /\ Configured < AvailableOf(g) - 100
           /\ RatIs(FinalLimit(g), AvailableOf(g) - 100, 1)

\* C25 as stated: with fewer GPUs than workers and an explicit limit, on a
\* GPU whose required memory does not exceed half of its available memory,
\* the final limit is required when required is below the clamped limit, and
\* the configured limit otherwise.
C25_ElseConfigured ==
    OverSubscribed /\ ~call.gpu_memory_limit.none =>
        \A g \in DOMAIN call.gpu_ids :
            Computed(g) /\ ~AboveHalf(g) =>
                IF BelowClamped(g)
                THEN RatIs(FinalLimit(g), RequiredNum(g), RequiredDen)
                ELSE RatIs(FinalLimit(g), Configured, 1)

\* C25: with fewer GPUs than workers and an explicit limit, on a GPU whose
\* required memory does not exceed half of its available memory, the final
\* limit is required when required is below the clamped limit, and the
\* clamped limit otherwise: the configured limit, or available - 100 when
\* the configured limit was above the available memory.
C25_ElseClamped ==
    OverSubscribed /\ ~call.gpu_memory_limit.none =>
        \A g \in DOMAIN call.gpu_ids :
            Computed(g) /\ ~AboveHalf(g) =>
                IF BelowClamped(g)
                THEN RatIs(FinalLimit(g), RequiredNum(g), RequiredDen)
                ELSE RatIs(FinalLimit(g), Clamped(g), 1)

C25_Witness ==
    /\ OverSubscribed /\ ~call.gpu_memory_limit.none /\ ~call.raised
    /\ \E g, h \in DOMAIN call.gpu_ids :
           /\ ~AboveHalf(g) /\ BelowClamped(g)
           /\ RatIs(FinalLimit(g), RequiredNum(g), RequiredDen)
           /\ ~AboveHalf(h) /\ ~BelowClamped(h)
           /\ RatIs(FinalLimit(h), Configured, 1)

\* C26 as stated: after the allocator has run the queue holds, for every
\* listed GPU id, exactly floor(available / final limit) tokens, each with
\* that GPU's id and final limit, and no other token.
C26_FloorTokensPerGpu ==
    call.fn = "allocate" /\ call.done /\ ~call.raised =>
        /\ \A g \in DOMAIN call.gpu_ids :
               /\ ~FinalLimit(g).none
               /\ Cardinality(TokensOf(g)) =
                      Floor(AvailableOf(g) * FinalLimit(g).den, FinalLimit(g).num)
               /\ \A k \in TokensOf(g) : call.queue[k].gpu_memory_limit = FinalLimit(g)
        /\ \A k \in DOMAIN call.queue : \E g \in DOMAIN call.gpu_ids : k \in TokensOf(g)

\* C26: after the allocator has run the queue holds, for every listed GPU
\* id, exactly processes_per_gpu tokens (none when that is not positive),
\* each with that GPU's id and final limit, and no other token, where
\* processes_per_gpu is 1 with at least as many GPUs as workers and
\* available / final limit rounded toward zero with fewer.
C26_TokensPerGpu ==
    call.fn = "allocate" /\ call.done /\ ~call.raised =>
        /\ \A g \in DOMAIN call.gpu_ids :
               /\ call.gpu_ids_meta[g].process_per_gpu =
                      IF OnePerGpu
                      THEN 1
                      ELSE Trunc(AvailableOf(g) * FinalLimit(g).den, FinalLimit(g).num)
               /\ Cardinality(TokensOf(g)) =
                      IF call.gpu_ids_meta[g].process_per_gpu > 0
                      THEN call.gpu_ids_meta[g].process_per_gpu
                      ELSE 0
               /\ \A k \in TokensOf(g) : call.queue[k].gpu_memory_limit = FinalLimit(g)
        /\ \A k \in DOMAIN call.queue : \E g \in DOMAIN call.gpu_ids : k \in TokensOf(g)

C26_Witness ==
    /\ OverSubscribed /\ ~call.raised
    /\ Len(call.gpu_ids) = 2
    /\ Cardinality(TokensOf(1)) > 1
    /\ Cardinality(TokensOf(2)) > 1
    /\ Cardinality(TokensOf(1)) # Cardinality(TokensOf(2))
    /\ call.queue[1].gpu_memory_limit # call.queue[Len(call.queue)].gpu_memory_limit

\* C30: with fewer GPUs than workers the allocator ends without an error,
\* every listed GPU's final limit is above zero and its processes_per_gpu is
\* at least 1, and the queue holds a token of every listed GPU id.
C30_AtLeastOneSlotPerGpu ==
    OverSubscribed =>
        /\ ~call.raised
        /\ \A g \in DOMAIN call.gpu_ids :
               /\ FinalLimit(g).num > 0
               /\ call.gpu_ids_meta[g].process_per_gpu >= 1
               /\ TokensOf(g) # {}

\* C29: when ParallelExecutor.execute has returned or raised in a run with
\* GPUs, no trial of the batch is pending, waiting for a token or running,
\* no trial holds a token, and the queue holds every token the allocator put,
\* as many times as it was put.
C29_NothingInFlightAtExit ==
    GpuRun /\ pc \in {"sort", "returned", "raised"} =>
        /\ \A t \in DOMAIN tasks :
               /\ tasks[t].state \in {"built", "done", "failed"}
               /\ tasks[t].slot = <<>>
        /\ Len(queue) = Len(made)
        /\ \A v \in Tokens : Count(queue, v) = Count(made, v)

\* the first batch failed with two trials that held the two tokens at once:
\* the tokens came back in the other order
C29_Witness ==
    /\ GpuRun
    /\ pc = "raised"
    /\ pool.joined
    /\ sampler.batches = 1
    /\ Len(tasks) = 2
    /\ \E t, u \in DOMAIN tasks : tasks[t].state = "failed" /\ tasks[u].state = "done"
    /\ Len(made) = 2
    /\ queue = <<made[2], made[1]>>
    /\ queue # made

\* a trial has failed and the coordinator is at pool.join() with the
\* exception, while a trial of the batch runs and another waits for a token
C29_FailedWhileOthersInFlight ==
    /\ GpuRun
    /\ pc = "join"
    /\ raising
    /\ \E t, u, w \in DOMAIN tasks :
           /\ tasks[t].state = "failed"
           /\ tasks[u].state = "running"
           /\ tasks[w].state = "waiting"

(***************************************************************************)
(* Executor selection.                                                     *)
(***************************************************************************)
\* the n-th lookup found the class cls
Resolved(n, cls) == ~call.results[n].raised /\ call.results[n].ret = cls

\* C27 as stated: the names "serial", "parallel" and "distributed" resolve to
\* the serial, the parallel-pool and the distributed-pool executor, and every
\* other name fails with a lookup error.
C27_DistributedResolves ==
    call.fn = "get_build_hyperopt_executor" =>
        \A n \in DOMAIN call.asked :
            IF call.asked[n] = "serial" THEN Resolved(n, "SerialExecutor")
            ELSE IF call.asked[n] = "parallel" THEN Resolved(n, "ParallelExecutor")
            ELSE IF call.asked[n] = "distributed" THEN Resolved(n, "FiberExecutor")
            ELSE call.results[n].raised

\* C27: the names "serial", "parallel" and "fiber" resolve to SerialExecutor,
\* ParallelExecutor and FiberExecutor, whatever was looked up before, and
\* every other name, "distributed" too, fails with a lookup error.
C27_FiberResolves ==
    call.fn = "get_build_hyperopt_executor" =>
        \A n \in DOMAIN call.asked :
            IF call.asked[n] = "serial" THEN Resolved(n, "SerialExecutor")
            ELSE IF call.asked[n] = "parallel" THEN Resolved(n, "ParallelExecutor")
            ELSE IF call.asked[n] = "fiber" THEN Resolved(n, "FiberExecutor")
            ELSE call.results[n].raised

C27_Witness ==
    /\ call.fn = "get_build_hyperopt_executor"
    /\ call.asked = <<"distributed", "fiber", "serial">>
    /\ call.results[1].raised
    /\ Resolved(2, "FiberExecutor")
    /\ Resolved(3, "SerialExecutor")

(***************************************************************************)
(* One trial.                                                              *)
(***************************************************************************)
\* the calls made so far, by name
CallsMade == [n \in DOMAIN call.log |-> call.log[n].name]

\* C28: train_and_eval_on_split constructs the model, trains it and evaluates
\* it, in that order; evaluate is called only after the construction and the
\* training have returned; a step that raises is the last step, the exception
\* leaves the function and nothing is returned; what is returned is the pair
\* of what train and evaluate returned.
C28_AllOrNothing ==
    call.fn = "train_and_eval_on_split" =>
        /\ \E n \in 0..3 : CallsMade = SubSeq(<<"LudwigModel", "train", "evaluate">>, 1, n)
        /\ \A n \in DOMAIN call.log :
               call.log[n].outcome.kind = "raise" =>
                   n = Len(call.log) /\ call.step = "raised"
        /\ call.step = "raised" => call.ret = <<>>
        /\ call.ret # <<>> =>
               /\ call.step = "returned"
               /\ Len(call.log) = 3
               /\ call.ret = <<call.log[2].outcome, call.log[3].outcome>>
        /\ call.step = "returned" => call.ret # <<>>

C28_Witness ==
    /\ call.fn = "train_and_eval_on_split"
    /\ call.step = "raised"
    /\ CallsMade = <<"LudwigModel", "train">>
    /\ call.log[2].outcome = Raise
    /\ call.ret = <<>>

(***************************************************************************)
(* The allocator's limit against the limit passed.                         *)
(***************************************************************************)
\* C31 as stated: with fewer GPUs than workers and an explicit limit, the
\* final limit of every GPU is at most the limit the caller passed.
C31_OnlyLowers ==
    OverSubscribed /\ ~call.gpu_memory_limit.none =>
        \A g \in DOMAIN call.gpu_ids :
            Computed(g) => RatLe(FinalLimit(g), Configured, 1)

\* C31: with fewer GPUs than workers and an explicit limit, the final limit
\* of a GPU is at most the limit the caller passed, except on a GPU whose
\* required memory exceeds half of its available memory and is below the
\* clamped limit: there the final limit is available - 100 (or the available
\* memory, when the limit passed equals it), which can be above the limit
\* passed.
C31_LowersUnlessUnderused ==
    OverSubscribed /\ ~call.gpu_memory_limit.none =>
        \A g \in DOMAIN call.gpu_ids :
            Computed(g) =>
                IF AboveHalf(g) /\ BelowClamped(g)
                THEN \/ RatIs(FinalLimit(g), AvailableOf(g) - 100, 1)
                     \/ RatIs(FinalLimit(g), Configured, 1)
                ELSE RatLe(FinalLimit(g), Configured, 1)

C31_Witness ==
    /\ OverSubscribed /\ ~call.gpu_memory_limit.none /\ ~call.raised
    /\ \E g, h \in DOMAIN call.gpu_ids :
           /\ ~RatLe(FinalLimit(g), Configured, 1)
           /\ RatLe(FinalLimit(h), Configured - 1, 1)

(***************************************************************************)
(* The slots of one GPU during a run of ParallelExecutor.                  *)
(***************************************************************************)
\* the run shares its GPUs: fewer GPUs than workers, and the allocator ended
SharedGpuRun ==
    GpuRun /\ pool.created /\ Len(gpus.ids) < args.num_workers

\* gpu_ids_meta of the g-th GPU of the run
MetaOf(g) ==
    gpu_id_meta(gpus.ids, args.num_workers, AvailableMemory,
                args.gpu_memory_limit, gpus.ids[g])

\* the trials that hold a token of the g-th GPU of the run
HoldersOf(g) ==
    {t \in DOMAIN tasks :
        tasks[t].slot # <<>> /\ tasks[t].slot[1].gpu_id = gpus.ids[g]}

\* the limits of the tokens borrowed of the g-th GPU add up to at most the
\* memory available on it
BorrowedFits(g) ==
    \A t \in HoldersOf(g) :
        Cardinality(HoldersOf(g)) * tasks[t].slot[1].gpu_memory_limit.num
            <= AvailableMemory[gpus.ids[g] + 1] * tasks[t].slot[1].gpu_memory_limit.den

\* C32: in a run with fewer GPUs than workers, at every moment and for every
\* GPU, the trials holding a token of the GPU are at most its
\* processes_per_gpu, and the limits of the tokens borrowed add up to at most
\* its available memory.
C32_HoldersWithinProcesses ==
    SharedGpuRun =>
        \A g \in DOMAIN gpus.ids :
            /\ Cardinality(HoldersOf(g)) <= MetaOf(g).process_per_gpu
            /\ BorrowedFits(g)

\* the same with a processes_per_gpu below zero read as zero
C32_HoldersWithinTokens ==
    SharedGpuRun =>
        \A g \in DOMAIN gpus.ids :
            /\ Cardinality(HoldersOf(g)) <=
                   IF MetaOf(g).process_per_gpu > 0 THEN MetaOf(g).process_per_gpu ELSE 0
            /\ BorrowedFits(g)

\* two trials share one GPU
C32_TwoOnOneGpu ==
    SharedGpuRun /\ \E g \in DOMAIN gpus.ids : Cardinality(HoldersOf(g)) = 2

(***************************************************************************)
(* The numbers of the trials of a run.                                     *)
(***************************************************************************)
\* the trial numbers of the results so far
TrialIds == {hyperopt_results[k].stats : k \in DOMAIN hyperopt_results}

\* C33: in every executor the n-th trial of the batch in hand has the number
\* of samples of the earlier batches plus n - 1, whatever the sizes of the
\* batches; the results of the run carry the numbers 0, 1, ... once each, the
\* k-th sample of the run having the number k - 1; no two trials of the run
\* have the same number.
C33_TrialIdsConsecutive ==
    /\ \A n \in DOMAIN tasks :
          /\ tasks[n].trial_id = EarlierSamples + n - 1
          /\ \A k \in DOMAIN tasks : k # n => tasks[k].trial_id # tasks[n].trial_id
          /\ ~Ended(tasks[n]) => tasks[n].trial_id \notin TrialIds
    /\ TrialIds = 0..(Len(hyperopt_results) - 1)
    /\ \A k \in DOMAIN hyperopt_results :
          /\ PyEq(hyperopt_results[k].parameters,
                  SampleAt(hyperopt_results[k].stats + 1, FALSE))
          /\ pc # "returned" => hyperopt_results[k].stats = k - 1

C33_Witness ==
    /\ args.executor \in {"parallel", "fiber"}
    /\ pc = "returned"
    /\ Len(updates) = 2
    /\ Len(updates[1].pairs) = 1
    /\ Len(updates[2].pairs) = 2
    /\ TrialIds = {0, 1, 2}

(***************************************************************************)
(* A sampler that has finished before the first batch.                     *)
(***************************************************************************)
\* C34: when the first call of finished() returns true, the executor makes
\* no other call of the sampler, builds and runs no trial, raises nothing and
\* returns the empty list; ParallelExecutor has then closed and joined the
\* pool it created.
C34_FinishedAtOnce ==
    calls # <<>> /\ calls[1] = "finished_true" =>
        /\ calls = <<"finished_true">>
        /\ updates = <<>>
        /\ sampled_parameters = <<>>
        /\ tasks = <<>>
        /\ trials = 0
        /\ hyperopt_results = <<>>
        /\ ~raising
        /\ pc \in {"close", "join", "sort", "returned"}
        /\ args.executor = "parallel" /\ pc \in {"sort", "returned"} =>
               pool.created /\ pool.closed /\ pool.joined

C34_Witness ==
    /\ args.executor = "parallel"
    /\ pc = "returned"
    /\ calls = <<"finished_true">>
    /\ hyperopt_results = <<>>
    /\ pool.closed /\ pool.joined
    /\ made # <<>>
    /\ queue = made

(***************************************************************************)
(* get_parameters_dict and the order of the sample's keys.                 *)
(***************************************************************************)
\* the sample with its keys in the opposite order
Reversed(d) == Dict([n \in DOMAIN d.items |-> d.items[Len(d.items) + 1 - n]])

\* what get_parameters_dict does on the sample of the call with its keys in
\* the opposite order is what it did on the sample of the call
SameOutcome(other) ==
    /\ other.raised = call.raised
    /\ ~call.raised => PyEq(other.dict, call.ret)

\* C35: get_parameters_dict gives the same outcome, the same nested mapping
\* or an error in both cases, for a sample and for the sample with its keys in
\* another order, also when one path is a proper prefix of another; and it
\* leaves the sample's values as they were.
C35_OrderIndependent ==
    call.fn = "get_parameters_dict" /\ call.done =>
        /\ SameOutcome(get_parameters_dict(Reversed(call.parameters)))
        /\ PyEq(call.parameters_after, call.parameters)

\* the same for the samples none of whose paths is a proper prefix of another
C35_OrderIndependentWithoutPrefix ==
    call.fn = "get_parameters_dict" /\ call.done /\ NoProperPrefix(call.parameters) =>
        /\ SameOutcome(get_parameters_dict(Reversed(call.parameters)))
        /\ PyEq(call.parameters_after, call.parameters)

(***************************************************************************)
(* What substitute_parameters leaves alone.                                *)
(***************************************************************************)
\* a path of the sample of the call addresses the key k of the feature or
\* section called name: its first component is name and its second one is k,
\* or it is name alone and its value is a mapping with the key k
Addressed(name, k) ==
    \E n \in DOMAIN call.parameters.items :
        LET path == split(call.parameters.items[n].k)
        IN /\ path[1] = name
           /\ IF Len(path) = 1
              THEN /\ call.parameters.items[n].v.isdict
                   /\ k \in Keys(call.parameters.items[n].v)
              ELSE path[2] = k

\* the mapping after has the keys and values of before, but for the keys
\* the sample addresses
SameButAddressed(before, after, name) ==
    \A k \in Keys(before) \cup Keys(after) :
        ~Addressed(name, k) =>
            /\ DictHas(before, k) /\ DictHas(after, k)
            /\ DictGet(after, k) = DictGet(before, k)

\* the names a sample path has to start with to change anything
Substituted(config) ==
    {DictGet(config.input_features[n], NAME).val : n \in DOMAIN config.input_features}
    \cup {DictGet(config.output_features[n], NAME).val : n \in DOMAIN config.output_features}
    \cup {Word("combiner"), Word("training"), Word("preprocessing")}

\* C36: the configuration substitute_parameters returns has the features of
\* the input in their order, and every key of every feature and of the
\* sections combiner, training and preprocessing has the value it had, but for
\* the keys addressed by a sample path that starts with the name of the
\* feature or section; a sample none of whose paths starts with such a name
\* changes nothing.
C36_OnlyAddressedKeysChange ==
    call.fn = "substitute_parameters" /\ call.done /\ ~call.raised =>
        /\ \A field \in {"input_features", "output_features"} :
               /\ Len(heap[call.ret][field]) = Len(call.before[field])
               /\ \A n \in DOMAIN call.before[field] :
                      SameButAddressed(call.before[field][n], heap[call.ret][field][n],
                                       DictGet(call.before[field][n], NAME).val)
        /\ \A field \in {"combiner", "training", "preprocessing"} :
               SameButAddressed(call.before[field], heap[call.ret][field], Word(field))
        /\ (\A n \in DOMAIN call.parameters.items :
                split(call.parameters.items[n].k)[1] \notin Substituted(call.before))
               => heap[call.ret] = call.before

C36_Witness ==
    /\ call.fn = "substitute_parameters" /\ call.done /\ ~call.raised
    /\ call.before = Config2
    /\ Len(call.parameters.items) = 2
    /\ call.parameters.items[1].k = Dotted("zz", "a")
    /\ call.parameters.items[2].k = Dotted("training", "lr")
    /\ DictGet(heap[call.ret].training, Word("lr")) = call.parameters.items[2].v
    /\ DictGet(heap[call.ret].training, Word("opt")) = DictGet(Config2.training, Word("opt"))
    /\ heap[call.ret].input_features = Config2.input_features

(***************************************************************************)
(* ParallelExecutor with and without GPUs.                                 *)
(***************************************************************************)
\* C37: in ParallelExecutor the run has GPUs exactly when GPU ids were passed
\* or detected.  With GPUs, once the pool exists the tokens made are all the
\* tokens the allocator computes, each in the queue or held by a trial; a
\* trial runs only while it holds one token, one the allocator made, and a
\* trial that has ended holds none.  Without GPUs no token is made, the queue
\* stays empty, and no trial waits for a token or holds one.
C37_QueueBuiltBeforeDispatch ==
    args.executor = "parallel" /\ pool.created =>
        /\ gpus.none = (args.gpus.none /\ args.detected.none)
        /\ ~gpus.none =>
               /\ made = allocate(gpus.ids, args.num_workers, AvailableMemory,
                                  args.gpu_memory_limit).queue
               /\ Len(queue) + Cardinality({t \in DOMAIN tasks : tasks[t].slot # <<>>})
                      = Len(made)
               /\ \A t \in DOMAIN tasks :
                      /\ tasks[t].state = "running" =>
                             /\ Len(tasks[t].slot) = 1
                             /\ \E n \in DOMAIN made : made[n] = tasks[t].slot[1]
                      /\ tasks[t].state # "running" => tasks[t].slot = <<>>
        /\ gpus.none =>
               /\ made = <<>>
               /\ queue = <<>>
               /\ \A t \in DOMAIN tasks :
                      tasks[t].state # "waiting" /\ tasks[t].slot = <<>>

C37_Witness ==
    /\ args.executor = "parallel"
    /\ args.gpus.none /\ ~gpus.none
    /\ pc = "map"
    /\ sampler.batches = 2
    /\ \E t, u \in DOMAIN tasks :
           /\ tasks[t].state = "running" /\ tasks[t].slot = <<made[1]>>
           /\ tasks[u].state = "done"

(***************************************************************************)
(* The subset a trial is evaluated on.                                     *)
(***************************************************************************)
\* C38: train_and_eval_on_split calls evaluate on the training subset for the
\* eval_split "training", on the test subset for "test", and on the
\* validation subset for "validation", for a call that passes no eval_split
\* and for every other value, which does not make the call fail.
C38_EvalSetBySplit ==
    call.fn = "train_and_eval_on_split" =>
        /\ \A n \in DOMAIN call.log :
               call.log[n].name = "evaluate" =>
                   call.log[n].dataset =
                       IF call.eval_split = "training" THEN "training_set"
                       ELSE IF call.eval_split = "test" THEN "test_set"
                       ELSE "validation_set"
        /\ call.step = "selected" =>
               call.eval_set = IF call.eval_split = "training" THEN "training_set"
                               ELSE IF call.eval_split = "test" THEN "test_set"
                               ELSE "validation_set"
        /\ call.step = "raised" /\ call.has_eval_batch_size =>
               \E n \in DOMAIN call.log : call.log[n].outcome.kind = "raise"

C38_Witness ==
    /\ call.fn = "train_and_eval_on_split"
    /\ call.step = "returned"
    /\ call.eval_split = "full"
    /\ call.log[3].name = "evaluate"
    /\ call.log[3].dataset = "validation_set"

====
